---- MODULE Spec2Model ----
(***************************************************************************)
(* Frame-in-flight lifecycle of the repository's swapchain schedulers.     *)
(*                                                                         *)
(* Two drafts of the same subsystem live in the repository:                *)
(*   - dieselvk CoreRenderInstance.Render / Resize (src/instance.go), the  *)
(*     fence-gated scheduler with one slot per swapchain depth;            *)
(*   - asche context.AcquireNextImage / PresentImage                       *)
(*     (src/test/shaders/vertex.vert), the frameLag scheduler that has     *)
(*     semaphores only.                                                    *)
(* Spec drives the first, SpecCtx the second.  The GPU and the             *)
(* presentation engine are the environment: they complete submitted work   *)
(* asynchronously and choose every result code and image index.            *)
(***************************************************************************)
EXTENDS Integers, Sequences, FiniteSets, TLC

VARIABLES
    \* ---- dieselvk CoreRenderInstance (src/instance.go:10-49)
    status,            \* "running", or "fatal" once Fatal() has ended the process
    pc,                \* "idle": between calls; "resize": inside Resize(), at DeviceWaitIdle
    surface_caps,      \* [min, max]: MinImageCount / MaxImageCount of the surface
    depth,             \* core.swapchain.depth
    current_buffer,    \* core.current_buffer
    fence_swapchain,   \* core.fence_swapchain: slot -> TRUE when signaled
    commands,          \* core.commands: slot -> framebuffer index recorded into it
    gpu,               \* slot -> "idle" | "exec" | "blocked": the slot's queue submission
    live,              \* number of GPU objects created and not destroyed, by kind
    swapchain,         \* core.swapchain.swapchain: [held, made, alive] swapchain handles
    rebuilds,          \* runs of the rebuild procedure so far
    live_first,        \* objects alive right after the first rebuild (0 before it)
    frames,            \* [n, submits, presents] while every result so far was Success
    clean,             \* TRUE while every result so far was Success
    last,              \* what the last call did, in order
    \* ---- asche context (src/test/shaders/vertex.vert:76-98)
    ctx_pc,            \* "idle", "acquired": the application holds an image to present,
                       \* "prepare": inside AcquireNextImage, at prepare's DeviceWaitIdle
    ctx_caps,          \* MinImageCount / MaxImageCount of the surface
    ctx_separate,      \* platform.HasSeparatePresentQueue()
    frameIndex,        \* c.frameIndex
    ctx_swapchain,     \* c.swapchain: the number of the swapchain held, 0 for the null handle
    ctx_images,        \* len(c.swapchainImageResources)
    ctx_pending,       \* images whose command buffer is queued on the GPU and not finished
    ctx_acquired,      \* the image index the last AcquireNextImage returned to the application
    ctx_handles,       \* [own, twice, lost]: the handle in each field of the context
                       \* ("null", "live" or "dead": destroyed and still in the field),
                       \* the kinds destroyed twice, the kinds dropped without destroy
    ctx_refused,       \* calls of a rebuild the driver or the callbacks refused so far
    ctx_last,          \* what the last context call did, in order
    \* ---- the parameters a swapchain is built with (src/swapchain.go:23-164)
    sel,               \* one answer of the surface and what the code makes of it
    \* ---- asche context with a perFrameCtx for each image (src/context.go:565-765)
    perFrame,          \* the perFrameCtxs, c.swapchainIndex and the semaphores of the frame
    \* ---- functions without state (src/usage.go, src/queue.go, src/extensions.go)
    fn,                \* the arguments of one call and what it returned
    \* ---- asche platform (src/platform.go)
    platform           \* the platform NewPlatform builds, and what Destroy does to it

render_vars == <<status, pc, surface_caps, depth, current_buffer, fence_swapchain,
                 commands, gpu, live, swapchain, rebuilds, live_first, frames, clean,
                 last>>

ctx_vars == <<ctx_pc, ctx_caps, ctx_separate, frameIndex, ctx_swapchain, ctx_images,
              ctx_pending, ctx_acquired, ctx_handles, ctx_refused, ctx_last>>

vars == <<render_vars, ctx_vars, sel, perFrame, fn, platform>>

\* what an action of one machine leaves alone
not_render_vars == <<ctx_vars, sel, perFrame, fn, platform>>

not_ctx_vars == <<render_vars, sel, perFrame, fn, platform>>

not_sel_vars == <<render_vars, ctx_vars, perFrame, fn, platform>>

not_frame_vars == <<render_vars, ctx_vars, sel, fn, platform>>

not_fn_vars == <<render_vars, ctx_vars, sel, perFrame, platform>>

not_platform_vars == <<render_vars, ctx_vars, sel, perFrame, fn>>

-----------------------------------------------------------------------------
(* Bounds of the model *)

MaxTicks == 10          \* frames counted on a run without stale results
MaxRebuilds == 2        \* runs of the rebuild procedure
MaxSurfaceImages == 3   \* largest MinImageCount / MaxImageCount a surface reports
MaxContextImages == 1   \* largest MinImageCount / MaxImageCount the context's surface reports
MaxContextRebuilds == 1 \* swapchains the context creates after its first
MaxRefusals == 1        \* calls inside a rebuild of the context that are refused
MaxFormats == 2         \* longest list of surface formats the surface reports
MaxQueriedImages == 4   \* largest MinImageCount / MaxImageCount asked of the clamp
MaxExtraImages == 1     \* images a swapchain returns beyond the count requested
MaxFrameImages == 2     \* swapchain images of the platform that calls BeginFrame
MaxSemaphores == 4      \* semaphores that platform creates in AcquireNextImage
MaxMemoryTypes == 3     \* memory types of the device (vk.MaxMemoryTypes is 32)
MaxPropertyFlags == 3   \* largest vk.MemoryPropertyFlags value: two flag bits
MaxQueueFamilies == 2   \* queue families of the physical device
MaxExtensions == 2      \* longest list of wanted or offered device extensions

(* Program constants *)

DesiredDepth == 3       \* NewCoreSwapchain(core, 3, core.display)
VulkanNone == 0         \* VulkanMode: const ( VulkanNone VulkanMode = iota
VulkanCompute == 1      \*                     VulkanCompute
VulkanGraphics == 2     \*                     VulkanGraphics
VulkanPresent == 3      \*                     VulkanPresent )
NullSemaphore == 0      \* vk.NullSemaphore
NullSwapchain == 0      \* vk.NullSwapchain
frameLag == 3           \* context{frameLag: 3} in NewPlatform
MaxUint32 == 2147483647 \* vk.MaxUint32 (2^32 - 1 in the code, the largest integer here;
                        \* the code only compares a width with it)

-----------------------------------------------------------------------------
(* Results the Vulkan calls can return to the code *)

AcquireResults == {"Success", "Suboptimal", "OutOfDate", "DeviceLost", "Error"}
SubmitResults == {"Success", "DeviceLost", "Error"}
PresentResults == {"Success", "Suboptimal", "OutOfDate", "Error"}

\* vkAcquireNextImageKHR hands out an image (and signals the semaphore) on these
ImageAcquired(res) == res \in {"Success", "Suboptimal"}

None == 0 - 1

Kinds == {"device", "pool", "swapchain", "view", "framebuffer", "cmd"}

SurfaceCaps ==
    {c \in [min : 1..MaxSurfaceImages, max : 0..MaxSurfaceImages] :
        c.max = 0 \/ c.min <= c.max}

ContextSurfaceCaps ==
    {c \in [min : 1..MaxContextImages, max : 0..MaxContextImages] :
        c.max = 0 \/ c.min <= c.max}

-----------------------------------------------------------------------------
(* NewCoreSwapchain: the image count requested from the surface *)

(* Variant: only the upper limit is applied *)
ClampUpperOnly(desired, caps) ==
    IF caps.max > 0 /\ desired > caps.max THEN caps.max ELSE desired

ClampDepth(desired, caps) ==
    IF caps.max > 0 /\ desired > caps.max THEN caps.max
    ELSE IF desired < caps.min THEN caps.min
    ELSE desired

(* Objects one run of CoreRenderInstance.Init creates: the device, the "Primary"
   pool, the swapchain, one view per image and the depth view, one framebuffer and
   one command buffer per image. *)
InitCreates(d) ==
    [k \in Kinds |->
        CASE k = "device"      -> 1
          [] k = "pool"        -> 1
          [] k = "swapchain"   -> 1
          [] k = "view"        -> d + 1
          [] k = "framebuffer" -> d
          [] k = "cmd"         -> d]

(* Objects one run of Init destroys itself: NewCoreSwapchain destroys the swapchain
   it has just created (see NewCoreSwapchain below) *)
InitDestroys(d) == [k \in Kinds |-> IF k = "swapchain" THEN 1 ELSE 0]

(* NewCoreSwapchain, from "Create a swapchain" on.  core.swapchain and
   core.old_swapchain are both set to the address of the local that receives the
   new handle.  The creation call is given the value of that local before the
   call, the null handle; the handle tested and destroyed after the call is the
   value after it, the new swapchain.  The swapchain the previous CoreSwapchain
   held is not looked at. *)
OldSwapchainBeforeCreate(held, new) == NullSwapchain

OldSwapchainAfterCreate(held, new) == new

NewCoreSwapchain(sc) ==
    LET new == sc.made + 1
        old == OldSwapchainAfterCreate(sc.held, new)
    IN  [held  |-> new,
         made  |-> new,
         alive |-> (sc.alive \cup {new}) \ (IF old # NullSwapchain THEN {old} ELSE {})]

(* CoreRenderInstance.Destroy: an empty body, nothing is released *)
Destroy(l) == l

TotalLive(l) ==
    l["device"] + l["pool"] + l["swapchain"] + l["view"] + l["framebuffer"] + l["cmd"]

(* SetupCommand(index): the command buffer of the slot is reset and re-recorded
   against core.swapchain.framebuffers[index] *)
FramebufferFor(index, image_index) == index

SetupCommand(cmds, index, image_index) ==
    [cmds EXCEPT ![index] = FramebufferFor(index, image_index)]

(* SetupCommands: every command buffer *)
SetupCommands(d) == [s \in 0..(d - 1) |-> FramebufferFor(s, None)]

(* Variants of the scheduler: one that waits on the fence of the following slot,
   one that does not wait at all *)
FenceOfNextSlot(cur, d) == (cur + 1) % d

WaitSkipped(fences, f) == TRUE

(* The fence Render waits on and resets, and the blocking wait itself *)
FenceToWait(cur, d) == cur

WaitForFences(fences, f) == fences[f]

ResetFences(fences, f) == [fences EXCEPT ![f] = FALSE]

(* Frame slots: one fence per slot, created signaled at startup and kept over
   rebuilds (Init does not touch them). *)
NewFrameFences(d) == [s \in 0..(d - 1) |-> TRUE]

(* The semaphores and the fence Render passes to acquire, submit and present *)
AcquireSemaphore(cur) == cur
SubmitWaitSemaphore(cur) == cur
SubmitSignalSemaphore(cur) == cur
SubmitFence(cur) == cur
PresentWaitSemaphore(cur) == cur

(* Variant: only Suboptimal takes the rebuild path *)
IsSuboptimalOnly(res) == res = "Suboptimal"

(* Variant: only OutOfDate takes the rebuild path *)
IsOutOfDateOnly(res) == res = "OutOfDate"

(* res == vk.ErrorOutOfDate || res == vk.Suboptimal *)
IsStale(res) == res \in {"OutOfDate", "Suboptimal"}

(* Variant: the slot index is never advanced *)
BufferKept(cur, d) == cur

(* core.current_buffer = (core.current_buffer + 1) % core.swapchain.depth *)
NextBuffer(cur, d) == (cur + 1) % d

(* vk.DeviceWaitIdle returns once no submission is pending *)
DeviceWaitIdle(g) == \A s \in DOMAIN g : g[s] = "idle"

Busy(g) == {s \in DOMAIN g : g[s] # "idle"}

-----------------------------------------------------------------------------
(* The log of one call *)

NoCall ==
    [kind |-> "none", done |-> TRUE, slot |-> None, ops |-> <<>>,
     fenceSeen |-> FALSE, recordBusy |-> FALSE, ahead |-> 0,
     acq |-> "none", acqSem |-> None, image |-> None, fb |-> None,
     sub |-> "none", subWait |-> None, subStage |-> "none", subSignal |-> None,
     subFence |-> None, subBusy |-> FALSE,
     pres |-> "none", presWait |-> None, presImage |-> None,
     swapHeld |-> None, swapOld |-> None, swapNew |-> None, swapDestroyed |-> None,
     extentZero |-> FALSE]

Has(ops, op) == \E i \in 1..Len(ops) : ops[i] = op

Count(ops, op) == Cardinality({i \in 1..Len(ops) : ops[i] = op})

\* every op2 of the call comes after some op1
Before(ops, op1, op2) ==
    \A j \in 1..Len(ops) : ops[j] = op2 => \E i \in 1..(j - 1) : ops[i] = op1

-----------------------------------------------------------------------------
(* The log of one call of the context *)

NoCtxCall ==
    [kind |-> "none", done |-> TRUE, ops |-> <<>>, frame |-> None, ret |-> "none",
     image |-> None, invalidated |-> None, acquireRet |-> "none",
     swapAtAcquire |-> None,
     swapAtPresent |-> None, busyAtCall |-> FALSE, busyAtDestroy |-> FALSE,
     outdated |-> FALSE, afterDestroy |-> FALSE, usedDead |-> {},
     callbackBefore |-> "none", refused |-> "none", err |-> FALSE]

\* the callbacks of the application a call has invoked, in order
Callbacks(ops) == SelectSeq(ops, LAMBDA o : o \in {"onPrepare", "onCleanup"})

\* the callback invoked last when the call is over: its own last one, or the one
\* invoked last before it
LastCallback(call) ==
    IF Callbacks(call.ops) = <<>> THEN call.callbackBefore
    ELSE Callbacks(call.ops)[Len(Callbacks(call.ops))]

(* The handles the platform and its context keep in their fields *)
CtxKinds == {"surface", "device", "semaphores", "swapchain", "cmdPool", "presentCmdPool",
             "cmd", "view", "framebuffer"}

NoHandles == [own |-> [k \in CtxKinds |-> "null"], twice |-> {}, lost |-> {}]

\* a new handle is stored into the field; a live handle it overwrites is lost
Created(h, k) ==
    [h EXCEPT !.own[k] = "live",
              !.lost = IF h.own[k] = "live" THEN @ \cup {k} ELSE @]

\* vk.Destroy* / vk.Free* on the field, which keeps its value; a null handle is ignored
Destroyed(h, k) ==
    [h EXCEPT !.own[k] = IF @ = "null" THEN "null" ELSE "dead",
              !.twice = IF h.own[k] = "dead" THEN @ \cup {k} ELSE @]

\* the field is set to the null handle, or the slice holding it to nil
Cleared(h, k) ==
    [h EXCEPT !.own[k] = "null",
              !.lost = IF h.own[k] = "live" THEN @ \cup {k} ELSE @]

(* One query of the surface, and the answer of one draft of the code to it *)
NoOutcome ==
    [result |-> "none", format |-> "none", colorSpace |-> "none",
     extent |-> [width |-> 0, height |-> 0], count |-> 0, alpha |-> "none",
     images |-> 0, views |-> 0, framebuffers |-> 0]

NoSelection ==
    [aspect |-> "none", draft |-> "none", formats |-> <<>>, preferred |-> "none",
     desired |-> 0, extent |-> [width |-> 0, height |-> 0], caps |-> [min |-> 1, max |-> 0],
     alpha |-> {}, returned |-> 0, out |-> NoOutcome]

(* The context of the draft with BeginFrame, before NewPlatform has run *)
NoFrame == [idx |-> None, acquire |-> NullSemaphore, release |-> NullSemaphore]

NoSubmit == [wait |-> None, signal |-> None]

NoPerFrame ==
    [pc |-> "none", perFrameCtxs |-> <<>>, swapchainIndex |-> 0, made |-> 0,
     destroyed |-> {}, begun |-> NoFrame, submit |-> NoSubmit, presentWait |-> None,
     ret |-> "none"]

(* No function has been called *)
NoResult == [ok |-> FALSE, index |-> 0, missing |-> <<>>, result |-> "none"]

NoFn ==
    [name |-> "none", draft |-> "none", ored |-> {}, v |-> 0, mode |-> 0, wanted |-> <<>>,
     actual |-> <<>>, props |-> <<>>, deviceRequirements |-> 0, hostRequirements |-> 0,
     out |-> NoResult]

(* NewPlatform has not been called.  A queue is named by the family it was
   retrieved for with vk.GetDeviceQueue, None is the nil queue *)
NoPlatform ==
    [pc |-> "none", draft |-> "none", mode |-> 0, surface |-> FALSE, families |-> <<>>,
     deviceRefused |-> FALSE, onCleanup |-> FALSE, result |-> "none",
     graphicsQueueIndex |-> 0, presentQueueIndex |-> 0, separateQueue |-> FALSE,
     graphicsQueue |-> None, presentQueue |-> None, made |-> {}, semaphores |-> 0,
     ops |-> <<>>]

(* No context is built in a run of the render instance, and the reverse *)
NoContext ==
    /\ ctx_pc = "absent"
    /\ ctx_caps = [min |-> 1, max |-> 0]
    /\ ctx_separate = FALSE
    /\ frameIndex = 0
    /\ ctx_swapchain = 0
    /\ ctx_images = 0
    /\ ctx_pending = {}
    /\ ctx_acquired = None
    /\ ctx_handles = NoHandles
    /\ ctx_refused = 0
    /\ ctx_last = NoCtxCall

NoRenderInstance ==
    /\ status = "absent"
    /\ pc = "idle"
    /\ surface_caps = [min |-> 1, max |-> 0]
    /\ depth = 0
    /\ current_buffer = 0
    /\ fence_swapchain = <<>>
    /\ commands = <<>>
    /\ gpu = <<>>
    /\ live = [k \in Kinds |-> 0]
    /\ swapchain = [held |-> NullSwapchain, made |-> 0, alive |-> {}]
    /\ rebuilds = 0
    /\ live_first = 0
    /\ frames = [n |-> 0, submits |-> 0, presents |-> 0]
    /\ clean = TRUE
    /\ last = NoCall

(* Construction: NewCoreRenderInstance runs Init once *)

Init ==
    /\ NoContext
    /\ sel = NoSelection
    /\ perFrame = NoPerFrame
    /\ fn = NoFn
    /\ platform = NoPlatform
    /\ status = "running"
    /\ pc = "idle"
    /\ surface_caps \in SurfaceCaps
    /\ depth = ClampDepth(DesiredDepth, surface_caps)
    /\ current_buffer = 0
    /\ fence_swapchain = NewFrameFences(depth)
    /\ commands = SetupCommands(depth)
    /\ gpu = [s \in 0..(depth - 1) |-> "idle"]
    /\ live = [k \in Kinds |-> InitCreates(depth)[k] - InitDestroys(depth)[k]]
    /\ swapchain = NewCoreSwapchain([held |-> NullSwapchain, made |-> 0, alive |-> {}])
    /\ rebuilds = 0
    /\ live_first = 0
    /\ frames = [n |-> 0, submits |-> 0, presents |-> 0]
    /\ clean = TRUE
    /\ last = NoCall

-----------------------------------------------------------------------------
(* CoreRenderInstance.Render with the results the driver returns to it *)

Render(acq, img, sub, pres) ==
    LET cur    == current_buffer
        f      == FenceToWait(cur, depth)
        fences == ResetFences(fence_swapchain, f)
        cmds   == SetupCommand(commands, cur, img)
        image_index == IF ImageAcquired(acq) THEN img ELSE 0
        head   == [NoCall EXCEPT
                     !.kind = "render", !.slot = cur,
                     !.fenceSeen = fence_swapchain[cur],
                     !.recordBusy = gpu[cur] # "idle",
                     !.ahead = Cardinality(Busy(gpu)),
                     !.fb = cmds[cur],
                     !.acq = acq, !.acqSem = AcquireSemaphore(cur),
                     !.image = IF ImageAcquired(acq) THEN img ELSE None]
        submitted == [head EXCEPT
                     !.sub = sub, !.subWait = SubmitWaitSemaphore(cur),
                     !.subStage = "ColorAttachmentOutput",
                     !.subSignal = SubmitSignalSemaphore(cur),
                     !.subFence = SubmitFence(cur),
                     !.subBusy = gpu[cur] # "idle"]
        \* a batch that waits on a semaphore nothing signals never runs
        queued == IF sub = "Success"
                  THEN [gpu EXCEPT ![cur] = IF ImageAcquired(acq) /\ SubmitWaitSemaphore(cur) = AcquireSemaphore(cur)
                                            THEN "exec" ELSE "blocked"]
                  ELSE gpu
        ok    == clean /\ acq = "Success" /\ sub = "Success" /\ pres = "Success"
    IN
    /\ status = "running"
    /\ pc = "idle"
    /\ clean => frames.n < MaxTicks
    /\ IsStale(acq) => rebuilds < MaxRebuilds
    /\ WaitForFences(fence_swapchain, f)
    /\ fence_swapchain' = fences
    /\ commands' = cmds
    /\ UNCHANGED <<surface_caps, depth, live, swapchain, rebuilds, live_first>>
    /\ UNCHANGED not_render_vars
    /\ IF IsStale(acq)
       THEN \* core.Resize(); return
            /\ pc' = "resize"
            /\ last' = [head EXCEPT !.done = FALSE,
                                    !.ops = <<"wait", "reset", "record", "acquire">>]
            /\ clean' = FALSE
            /\ frames' = [n |-> 0, submits |-> 0, presents |-> 0]
            /\ UNCHANGED <<status, current_buffer, gpu>>
       ELSE IF acq = "DeviceLost"
       THEN \* Fatal(NewError(res))
            /\ status' = "fatal"
            /\ last' = [head EXCEPT !.ops = <<"wait", "reset", "record", "acquire", "fatal">>]
            /\ clean' = FALSE
            /\ frames' = [n |-> 0, submits |-> 0, presents |-> 0]
            /\ UNCHANGED <<pc, current_buffer, gpu>>
       ELSE IF sub = "DeviceLost"
       THEN /\ status' = "fatal"
            /\ last' = [submitted EXCEPT
                          !.ops = <<"wait", "reset", "record", "acquire", "submit", "fatal">>]
            /\ clean' = FALSE
            /\ frames' = [n |-> 0, submits |-> 0, presents |-> 0]
            /\ UNCHANGED <<pc, current_buffer, gpu>>
       ELSE IF IsStale(sub)
       THEN /\ pc' = "resize"
            /\ last' = [submitted EXCEPT !.done = FALSE,
                          !.ops = <<"wait", "reset", "record", "acquire", "submit">>]
            /\ clean' = FALSE
            /\ frames' = [n |-> 0, submits |-> 0, presents |-> 0]
            /\ gpu' = queued
            /\ UNCHANGED <<status, current_buffer>>
       ELSE \* vk.QueuePresent, its result dropped; then the slot index advances
            /\ gpu' = queued
            /\ current_buffer' = NextBuffer(cur, depth)
            /\ last' = [submitted EXCEPT
                          !.pres = pres, !.presWait = PresentWaitSemaphore(cur),
                          !.presImage = image_index,
                          !.ops = <<"wait", "reset", "record", "acquire", "submit",
                                    "present", "advance">>]
            /\ clean' = ok
            /\ frames' = IF ok
                         THEN [n |-> frames.n + 1, submits |-> frames.submits + 1,
                               presents |-> frames.presents + 1]
                         ELSE [n |-> 0, submits |-> 0, presents |-> 0]
            /\ UNCHANGED <<status, pc>>

RenderTick ==
    \E acq \in AcquireResults, sub \in SubmitResults, pres \in PresentResults :
        \E img \in 0..(depth - 1) :
            \* no image comes with a failed acquisition; calls Render does not
            \* reach return nothing
            /\ ~ImageAcquired(acq) => img = 0
            /\ (IsStale(acq) \/ acq = "DeviceLost") => sub = "Success"
            /\ (IsStale(acq) \/ acq = "DeviceLost" \/ sub = "DeviceLost") => pres = "Success"
            /\ Render(acq, img, sub, pres)

(* CoreRenderInstance.Resize, from the DeviceWaitIdle it blocks in to its return:
   Destroy, then Init builds a new device, pool, swapchain, views, framebuffers
   and command buffers and records every command buffer.  NewCoreSwapchain takes
   the surface's CurrentExtent as the swapchain size; zero says it is (0, 0), the
   extent of a minimized window. *)
ResizeInit(create_ok, zero) ==
    /\ status = "running"
    /\ pc = "resize"
    /\ DeviceWaitIdle(gpu)
    /\ UNCHANGED <<surface_caps, current_buffer, fence_swapchain, gpu, frames, clean>>
    /\ UNCHANGED not_render_vars
    /\ IF create_ok
       THEN /\ depth' = ClampDepth(DesiredDepth, surface_caps)
            /\ live' = [k \in Kinds |->
                          Destroy(live)[k] + InitCreates(depth')[k] - InitDestroys(depth')[k]]
            /\ swapchain' = NewCoreSwapchain(swapchain)
            /\ commands' = SetupCommands(depth')
            /\ rebuilds' = rebuilds + 1
            /\ live_first' = IF rebuilds = 0 THEN TotalLive(live') ELSE live_first
            /\ pc' = "idle"
            /\ last' = [last EXCEPT
                          !.done = TRUE,
                          !.ops = last.ops \o <<"waitidle", "destroy", "createSwapchain",
                                                "destroySwapchain", "init", "waitidle">>,
                          !.extentZero = zero,
                          !.swapHeld = swapchain.held,
                          !.swapOld = OldSwapchainBeforeCreate(swapchain.held,
                                                               swapchain.made + 1),
                          !.swapNew = swapchain.made + 1,
                          !.swapDestroyed = OldSwapchainAfterCreate(swapchain.held,
                                                                    swapchain.made + 1)]
            /\ UNCHANGED status
       ELSE \* Fatal(NewError(ret)) after vk.CreateSwapchain
            /\ status' = "fatal"
            /\ last' = [last EXCEPT
                          !.done = TRUE,
                          !.ops = last.ops \o <<"waitidle", "destroy", "createSwapchain",
                                                "fatal">>,
                          !.extentZero = zero,
                          !.swapHeld = swapchain.held,
                          !.swapOld = OldSwapchainBeforeCreate(swapchain.held,
                                                               swapchain.made + 1)]
            /\ UNCHANGED <<pc, depth, live, swapchain, commands, rebuilds, live_first>>

Resize == \E create_ok \in BOOLEAN, zero \in BOOLEAN : ResizeInit(create_ok, zero)

(* The application calls Resize() itself (the window was resized) *)
CallResize ==
    /\ status = "running"
    /\ pc = "idle"
    /\ rebuilds < MaxRebuilds
    /\ pc' = "resize"
    /\ last' = [NoCall EXCEPT !.kind = "resize", !.done = FALSE]
    /\ clean' = FALSE
    /\ frames' = [n |-> 0, submits |-> 0, presents |-> 0]
    /\ UNCHANGED <<status, surface_caps, depth, current_buffer, fence_swapchain,
                   commands, gpu, live, swapchain, rebuilds, live_first>>
    /\ UNCHANGED not_render_vars

(* The GPU finishes the batch of a slot and signals the fence it was given *)
GpuComplete(s) ==
    /\ gpu[s] = "exec"
    /\ gpu' = [gpu EXCEPT ![s] = "idle"]
    /\ fence_swapchain' = [fence_swapchain EXCEPT ![SubmitFence(s)] = TRUE]
    /\ UNCHANGED <<status, pc, surface_caps, depth, current_buffer, commands, live,
                   swapchain, rebuilds, live_first, frames, clean, last>>
    /\ UNCHANGED not_render_vars

GpuStep == \E s \in DOMAIN gpu : GpuComplete(s)

Next == RenderTick \/ Resize \/ CallResize \/ GpuStep

Spec == Init /\ [][Next]_vars

(* A fair GPU: a batch that is executing finishes, and signals its fence *)
SpecFair ==
    Spec /\ \A s \in 0..(MaxSurfaceImages - 1) : WF_vars((s \in DOMAIN gpu) /\ GpuComplete(s))

-----------------------------------------------------------------------------
(* asche context with frameLag semaphores: NewPlatform in present mode, then
   AcquireNextImage and PresentImage called in turn by the application *)

(* prepareSwapchain: MinImageCount + 1, or MaxImageCount when that is smaller *)
DesiredSwapchainImages(caps) ==
    IF caps.max > 0 /\ caps.min + 1 > caps.max THEN caps.max ELSE caps.min + 1

(* The calls of prepareSwapchain and of prepare that can be refused; the code
   panics on the refusal and AcquireNextImage recovers the panic into its error *)
SwapchainFails == {"caps", "createSwapchain", "getImages"}

PrepareStages == <<"onCleanup", "createPool", "allocate", "createViews", "onPrepare",
                   "flush">>

PrepareFails == {PrepareStages[i] : i \in 1..Len(PrepareStages)}

(* The call of prepare whose result is not stored: vk.AllocateCommandBuffers of the
   command buffer of each image; the orPanic after it tests the result of
   vk.BeginCommandBuffer again, so prepare goes on when the allocation is refused *)
UncheckedFails == {"allocateImage"}

StageIndex(stage) ==
    IF stage \in {"none"} \cup UncheckedFails THEN Len(PrepareStages) + 1
    ELSE CHOOSE i \in 1..Len(PrepareStages) : PrepareStages[i] = stage

\* the stage was run and did not fail
Passed(fail, stage) == StageIndex(fail) > StageIndex(stage)

\* the stage was run
Attempted(fail, stage) == StageIndex(fail) >= StageIndex(stage)

(* prepareSwapchain from vk.CreateSwapchain on: the old swapchain is destroyed when
   there is one, then the image resources held (framebuffer, view, command buffer,
   uniform buffer and memory of each) *)
PrepareSwapchainOps(old, held, fail) ==
    IF fail = "caps" THEN <<"panic">>
    ELSE IF fail = "createSwapchain" THEN <<"createSwapchain", "panic">>
    ELSE <<"createSwapchain">>
         \o (IF old # 0 THEN <<"destroySwapchain">> ELSE <<>>)
         \o <<"getImages">>
         \o (IF fail = "getImages" THEN <<"panic">>
             ELSE IF held > 0 THEN <<"destroyResources">> ELSE <<>>)

(* SwapchainImageResources.Destroy of every image: framebuffer, view, command buffer *)
ResourcesDestroyed(h) == Destroyed(Destroyed(Destroyed(h, "framebuffer"), "view"), "cmd")

\* the slice is replaced by a new one, or set to nil
ResourcesCleared(h) == Cleared(Cleared(Cleared(h, "framebuffer"), "view"), "cmd")

(* The handles after prepareSwapchain *)
PrepareSwapchainHandles(h, fail) ==
    IF fail \in {"caps", "createSwapchain"} THEN h
    ELSE LET swapped == Created(Destroyed(h, "swapchain"), "swapchain")
         IN  IF fail = "getImages" THEN swapped
             ELSE ResourcesCleared(ResourcesDestroyed(swapped))

(* prepare(needCleanup); a call that is refused, or an application callback that
   fails, panics *)
PrepareOps(needCleanup, fail) ==
    <<"waitidle">>
    \o (IF needCleanup THEN <<"onCleanup">> ELSE <<>>)
    \o (IF needCleanup /\ Passed(fail, "onCleanup") THEN <<"destroyPool">> ELSE <<>>)
    \o (IF Attempted(fail, "createPool") THEN <<"createPool">> ELSE <<>>)
    \o (IF Attempted(fail, "allocate") THEN <<"allocate">> ELSE <<>>)
    \o (IF Attempted(fail, "createViews") THEN <<"createViews">> ELSE <<>>)
    \o (IF Attempted(fail, "onPrepare") THEN <<"onPrepare">> ELSE <<>>)
    \o (IF Attempted(fail, "flush") THEN <<"flushInitCmd">> ELSE <<>>)
    \o (IF fail \in PrepareFails THEN <<"panic">> ELSE <<>>)

\* vk.DestroyCommandPool of c.cmdPool and, with a separate queue, c.presentCmdPool
PoolsDestroyed(h, separate) ==
    LET g == Destroyed(h, "cmdPool")
    IN  IF separate THEN Destroyed(g, "presentCmdPool") ELSE g

(* The handles after prepare(needCleanup): the pools are destroyed after onCleanup,
   c.cmdPool is assigned after vk.CreateCommandPool succeeded, the application's
   onPrepare hands the framebuffers over (SetFramebuffer), flushInitCmd creates a
   fence and destroys it on its last line only *)
PrepareHandles(h, needCleanup, separate, fail) ==
    LET h1 == IF needCleanup /\ Passed(fail, "onCleanup")
              THEN PoolsDestroyed(h, separate) ELSE h
        h2 == IF Passed(fail, "createPool") THEN Created(h1, "cmdPool") ELSE h1
        h3 == IF Passed(fail, "allocate")
              THEN LET g == IF fail \in UncheckedFails THEN h2 ELSE Created(h2, "cmd")
                   IN  IF separate THEN Created(g, "presentCmdPool") ELSE g
              ELSE h2
        h4 == IF Passed(fail, "createViews") THEN Created(h3, "view") ELSE h3
        h5 == IF Passed(fail, "onPrepare") THEN Created(h4, "framebuffer") ELSE h4
    IN  IF fail = "flush" THEN [h5 EXCEPT !.lost = @ \cup {"fence"}] ELSE h5

(* context.destroy, then the rest of platform.Destroy *)
DestroyOps ==
    <<"onCleanup", "destroySemaphores", "destroyResources", "destroySwapchain",
      "destroyPool", "destroySurface", "destroyDevice">>

DestroyHandles(h, separate) ==
    LET h1 == Destroyed(h, "semaphores")
        h2 == ResourcesCleared(ResourcesDestroyed(h1))
        h3 == Cleared(Destroyed(h2, "swapchain"), "swapchain")
        h4 == PoolsDestroyed(h3, separate)
        h5 == Cleared(Destroyed(h4, "surface"), "surface")
    IN  Cleared(Destroyed(h5, "device"), "device")

\* the handles NewPlatform has made when it calls prepareSwapchain
NewPlatformHandles == Created(Created(Created(NoHandles, "surface"), "device"), "semaphores")

\* vk.DeviceWaitIdle(p.device) of platform.Destroy returns
CtxWaitSkipped(pending) == TRUE

CtxDeviceWaitIdle(pending) == pending = {}

(* defer checkErr(&err): a panic raised in the call is recovered and becomes the
   error the call returns *)
checkErr(panicked) == panicked

(* Variant: the index is incremented and not wrapped *)
NextFrameUnwrapped(i) == i + 1

(* c.frameIndex++; c.frameIndex = c.frameIndex % c.frameLag *)
NextFrame(i) == (i + 1) % frameLag

(* preparePresent: each semaphore slice is made with c.frameLag entries *)
SemaphoreSlices ==
    [a \in {"imageAcquiredSemaphores", "drawCompleteSemaphores",
            "imageOwnershipSemaphores"} |-> frameLag]

(* Variant: the application presents the index of an outdated acquisition *)
OutdatedIgnored(outdated, err) == ~err

(* The application holds an image to present when AcquireNextImage returned neither
   an error nor the outdated marker; on the marker it calls AcquireNextImage again *)
HoldsImage(outdated, err) == ~outdated /\ ~err

(* NewPlatform: preparePresent, prepareSwapchain with no swapchain held, the
   callbacks set, prepare(false) *)
CtxInit ==
    /\ NoRenderInstance
    /\ sel = NoSelection
    /\ perFrame = NoPerFrame
    /\ fn = NoFn
    /\ platform = NoPlatform
    /\ ctx_pc = "idle"
    /\ ctx_caps \in ContextSurfaceCaps
    /\ ctx_separate \in BOOLEAN
    /\ frameIndex = 0
    /\ ctx_swapchain = 1
    /\ ctx_images = DesiredSwapchainImages(ctx_caps)
    /\ ctx_pending = {}
    /\ ctx_acquired = None
    /\ ctx_handles = PrepareHandles(PrepareSwapchainHandles(NewPlatformHandles, "none"),
                                    FALSE, ctx_separate, "none")
    /\ ctx_refused = 0
    /\ ctx_last = [NoCtxCall EXCEPT
                     !.kind = "new",
                     !.ops = <<"preparePresent">> \o PrepareSwapchainOps(0, 0, "none")
                             \o PrepareOps(FALSE, "none")]

(* context.AcquireNextImage up to its return, or up to the DeviceWaitIdle of
   prepare(true) on the OutOfDate path *)
CtxAcquireNextImage(ret, idx, cb_ok, swap_fail, sub, sub2) ==
    LET head == [NoCtxCall EXCEPT !.kind = "acquire", !.frame = frameIndex,
                                  !.callbackBefore = LastCallback(ctx_last),
                                  !.ret = ret, !.image = idx, !.refused = swap_fail,
                                  !.invalidated = idx, !.acquireRet = ret,
                                  !.swapAtAcquire = ctx_swapchain]
        ops0 == <<"acquire", "onInvalidate">>
        failed(ops) == [head EXCEPT !.ops = ops \o <<"panic">>, !.err = checkErr(TRUE)]
        swapped == swap_fail \notin {"caps", "createSwapchain"}
    IN
    /\ ctx_pc = "idle"
    /\ ret = "OutOfDate" => ctx_swapchain <= MaxContextRebuilds
    /\ swap_fail # "none" => ctx_refused < MaxRefusals
    /\ ctx_refused' = IF swap_fail # "none" THEN ctx_refused + 1 ELSE ctx_refused
    /\ UNCHANGED <<ctx_caps, ctx_separate>>
    /\ UNCHANGED not_ctx_vars
    /\ IF ~cb_ok
       THEN \* orPanic(c.onInvalidate(imageIndex)), recovered by checkErr
            /\ ctx_last' = failed(ops0)
            /\ UNCHANGED <<ctx_pc, frameIndex, ctx_swapchain, ctx_images, ctx_pending,
                           ctx_acquired, ctx_handles>>
       ELSE IF ret = "OutOfDate"
       THEN \* prepareSwapchain runs whole; prepare(true) then waits for the device
            /\ frameIndex' = NextFrame(frameIndex)
            /\ ctx_swapchain' = IF swapped THEN ctx_swapchain + 1 ELSE ctx_swapchain
            /\ ctx_images' = IF swap_fail = "none" THEN DesiredSwapchainImages(ctx_caps)
                             ELSE ctx_images
            /\ ctx_handles' = PrepareSwapchainHandles(ctx_handles, swap_fail)
            /\ ctx_pc' = IF swap_fail = "none" THEN "prepare" ELSE "idle"
            /\ ctx_last' = [head EXCEPT
                              !.done = swap_fail # "none",
                              !.err = checkErr(swap_fail # "none"),
                              !.busyAtDestroy = swapped /\ ctx_pending # {},
                              !.ops = ops0 \o <<"advance">>
                                      \o PrepareSwapchainOps(ctx_swapchain, ctx_images,
                                                             swap_fail)]
            /\ UNCHANGED <<ctx_pending, ctx_acquired>>
       ELSE IF ret \notin {"Suboptimal", "Success"}
       THEN /\ ctx_last' = failed(ops0)
            /\ UNCHANGED <<ctx_pc, frameIndex, ctx_swapchain, ctx_images, ctx_pending,
                           ctx_acquired, ctx_handles>>
       ELSE IF sub # "Success"
       THEN /\ ctx_last' = failed(ops0 \o <<"submit">>)
            /\ UNCHANGED <<ctx_pc, frameIndex, ctx_swapchain, ctx_images, ctx_pending,
                           ctx_acquired, ctx_handles>>
       ELSE IF ctx_separate /\ sub2 # "Success"
       THEN /\ ctx_last' = failed(ops0 \o <<"submit", "submitOwnership">>)
            /\ ctx_pending' = ctx_pending \cup {idx}
            /\ UNCHANGED <<ctx_pc, frameIndex, ctx_swapchain, ctx_images, ctx_acquired,
                           ctx_handles>>
       ELSE /\ ctx_last' = [head EXCEPT
                              !.ops = ops0 \o <<"submit">>
                                      \o (IF ctx_separate THEN <<"submitOwnership">>
                                          ELSE <<>>)]
            /\ ctx_pending' = ctx_pending \cup {idx}
            /\ ctx_pc' = IF HoldsImage(FALSE, FALSE) THEN "acquired" ELSE "idle"
            /\ ctx_acquired' = idx
            /\ UNCHANGED <<frameIndex, ctx_swapchain, ctx_images, ctx_handles>>

CtxAcquire ==
    \E ret \in AcquireResults, cb_ok \in BOOLEAN, sub \in SubmitResults, sub2 \in SubmitResults,
       swap_fail \in SwapchainFails \cup {"none"} :
        \E idx \in 0..(ctx_images - 1) :
            \* no image comes with a failed acquisition; calls not reached return nothing
            /\ ~ImageAcquired(ret) => idx = 0
            /\ (~cb_ok \/ ret # "OutOfDate") => swap_fail = "none"
            /\ (~cb_ok \/ ~ImageAcquired(ret)) => sub = "Success"
            /\ (~cb_ok \/ ~ImageAcquired(ret) \/ sub # "Success" \/ ~ctx_separate)
                   => sub2 = "Success"
            /\ CtxAcquireNextImage(ret, idx, cb_ok, swap_fail, sub, sub2)

(* prepare(true) from the return of its DeviceWaitIdle to the return of
   AcquireNextImage *)
CtxPrepare(fail) ==
    /\ ctx_pc = "prepare"
    /\ ctx_pending = {}
    /\ fail # "none" => ctx_refused < MaxRefusals
    /\ ctx_refused' = IF fail # "none" THEN ctx_refused + 1 ELSE ctx_refused
    /\ ctx_pc' = IF HoldsImage(fail \notin PrepareFails, checkErr(fail \in PrepareFails))
                 THEN "acquired" ELSE "idle"
    /\ ctx_acquired' = IF HoldsImage(fail \notin PrepareFails,
                                     checkErr(fail \in PrepareFails))
                       THEN ctx_last.image ELSE ctx_acquired
    /\ ctx_handles' = PrepareHandles(ctx_handles, TRUE, ctx_separate, fail)
    /\ ctx_last' = [ctx_last EXCEPT
                      !.done = TRUE,
                      !.ops = ctx_last.ops \o PrepareOps(TRUE, fail),
                      !.outdated = (fail \notin PrepareFails),
                      !.refused = fail,
                      !.err = checkErr(fail \in PrepareFails)]
    /\ UNCHANGED <<ctx_caps, ctx_separate, frameIndex, ctx_swapchain, ctx_images,
                   ctx_pending>>
    /\ UNCHANGED not_ctx_vars

CtxPrepareStep ==
    \E fail \in PrepareFails \cup UncheckedFails \cup {"none"} : CtxPrepare(fail)

(* context.PresentImage(imageIdx) with the image the application was handed *)
CtxPresentImage(ret) ==
    /\ ctx_pc = "acquired"
    /\ frameIndex' = NextFrame(frameIndex)
    /\ ctx_pc' = "idle"
    /\ ctx_acquired' = None
    /\ ctx_last' = [NoCtxCall EXCEPT
                      !.kind = "present", !.frame = frameIndex, !.ret = ret,
                      !.callbackBefore = LastCallback(ctx_last),
                      !.image = ctx_acquired,
                      !.acquireRet = ctx_last.acquireRet,
                      !.swapAtAcquire = ctx_last.swapAtAcquire,
                      !.swapAtPresent = ctx_swapchain,
                      !.ops = <<"present", "advance">>,
                      !.outdated = (ret = "OutOfDate"),
                      !.err = ret \notin {"OutOfDate", "Suboptimal", "Success"}]
    /\ UNCHANGED <<ctx_caps, ctx_separate, ctx_swapchain, ctx_images, ctx_pending,
                   ctx_handles, ctx_refused>>
    /\ UNCHANGED not_ctx_vars

CtxPresent == \E ret \in PresentResults : CtxPresentImage(ret)

(* platform.Destroy up to its vk.DeviceWaitIdle(p.device) *)
CtxDestroyCall ==
    /\ ctx_pc \in {"idle", "acquired"}
    /\ ctx_pc' = "destroying"
    /\ ctx_last' = [NoCtxCall EXCEPT !.kind = "destroy", !.done = FALSE,
                                     !.callbackBefore = LastCallback(ctx_last),
                                     !.busyAtCall = ctx_pending # {},
                                     !.ops = <<"waitidle">>]
    /\ UNCHANGED <<ctx_caps, ctx_separate, frameIndex, ctx_swapchain, ctx_images,
                   ctx_pending, ctx_acquired, ctx_handles, ctx_refused>>
    /\ UNCHANGED not_ctx_vars

(* platform.Destroy from the return of the wait: p.context.destroy(), p.context = nil,
   the surface and the device destroyed and their fields set to null *)
CtxDestroyRelease ==
    /\ ctx_pc = "destroying"
    /\ CtxDeviceWaitIdle(ctx_pending)
    /\ ctx_pc' = "destroyed"
    /\ ctx_handles' = DestroyHandles(ctx_handles, ctx_separate)
    /\ ctx_swapchain' = 0
    /\ ctx_images' = 0
    /\ ctx_acquired' = None
    /\ ctx_last' = [ctx_last EXCEPT
                      !.done = TRUE,
                      !.busyAtDestroy = ctx_pending # {},
                      !.ops = ctx_last.ops \o DestroyOps]
    /\ UNCHANGED <<ctx_caps, ctx_separate, frameIndex, ctx_pending, ctx_refused>>
    /\ UNCHANGED not_ctx_vars

(* platform.Destroy called again: p.device is nil, so nothing is waited for, and
   p.context is nil, so p.context.destroy() reads c.onCleanup through a nil pointer;
   nothing recovers that panic *)
CtxDestroyAgain ==
    /\ ctx_pc = "destroyed"
    /\ ctx_pc' = "crashed"
    /\ ctx_last' = [NoCtxCall EXCEPT !.kind = "destroy", !.ops = <<"panic">>,
                                     !.callbackBefore = LastCallback(ctx_last),
                                     !.err = TRUE]
    /\ UNCHANGED <<ctx_caps, ctx_separate, frameIndex, ctx_swapchain, ctx_images,
                   ctx_pending, ctx_acquired, ctx_handles, ctx_refused>>
    /\ UNCHANGED not_ctx_vars

\* the handles vk.AcquireNextImage is given: c.swapchain and
\* c.imageAcquiredSemaphores[c.frameIndex]
AcquireUses == {"swapchain", "semaphores"}

(* context.AcquireNextImage on the context of a destroyed platform, which the
   application still holds.  No field says the context is destroyed:
   vk.AcquireNextImage is called with the null swapchain and a destroyed semaphore,
   and whatever it returns, or the crash it ends in, is the driver's choice.  If it
   returns, onInvalidate runs, and then c.platform, which destroy set to nil, is
   called (or orPanic raises the error returned); checkErr recovers the panic. *)
CtxAcquireAfterDestroy(ret, crash, cb_ok) ==
    /\ ctx_pc = "destroyed"
    /\ ctx_pc' = IF crash THEN "crashed" ELSE "destroyed"
    /\ frameIndex' = IF ~crash /\ cb_ok /\ ret = "OutOfDate" THEN NextFrame(frameIndex)
                     ELSE frameIndex
    /\ ctx_last' = [NoCtxCall EXCEPT
                      !.kind = "acquire", !.done = ~crash, !.frame = frameIndex,
                      !.callbackBefore = LastCallback(ctx_last),
                      !.ret = ret, !.acquireRet = ret, !.afterDestroy = TRUE,
                      !.usedDead = {k \in AcquireUses : ctx_handles.own[k] = "dead"},
                      !.ops = IF crash THEN <<"acquire">>
                              ELSE IF ~cb_ok THEN <<"acquire", "onInvalidate", "panic">>
                              ELSE IF ret = "OutOfDate"
                              THEN <<"acquire", "onInvalidate", "advance", "panic">>
                              ELSE <<"acquire", "onInvalidate", "panic">>,
                      !.err = TRUE]
    /\ UNCHANGED <<ctx_caps, ctx_separate, ctx_swapchain, ctx_images, ctx_pending,
                   ctx_acquired, ctx_handles, ctx_refused>>
    /\ UNCHANGED not_ctx_vars

CtxAcquireDestroyed ==
    \E ret \in AcquireResults, crash \in BOOLEAN, cb_ok \in BOOLEAN :
        /\ crash => (ret = "Success" /\ cb_ok)
        /\ CtxAcquireAfterDestroy(ret, crash, cb_ok)

(* context.PresentImage on the context of a destroyed platform: its first statement
   calls c.platform.HasSeparatePresentQueue() on the nil interface, and nothing
   recovers the panic; vk.QueuePresent is not reached *)
CtxPresentAfterDestroy ==
    /\ ctx_pc = "destroyed"
    /\ ctx_pc' = "crashed"
    /\ ctx_last' = [NoCtxCall EXCEPT !.kind = "present", !.done = FALSE,
                                     !.callbackBefore = LastCallback(ctx_last),
                                     !.afterDestroy = TRUE, !.ops = <<"panic">>,
                                     !.err = TRUE]
    /\ UNCHANGED <<ctx_caps, ctx_separate, frameIndex, ctx_swapchain, ctx_images,
                   ctx_pending, ctx_acquired, ctx_handles, ctx_refused>>
    /\ UNCHANGED not_ctx_vars

(* The GPU finishes the command buffer submitted for an image *)
CtxGpuComplete(i) ==
    /\ i \in ctx_pending
    /\ ctx_pending' = ctx_pending \ {i}
    /\ UNCHANGED <<ctx_pc, ctx_caps, ctx_separate, frameIndex, ctx_swapchain, ctx_images,
                   ctx_acquired, ctx_handles, ctx_refused, ctx_last>>
    /\ UNCHANGED not_ctx_vars

(* The GPU runs into a command buffer or swapchain image that was destroyed under
   it: the device is lost and no call returns any more *)
CtxGpuFault(i) ==
    /\ i \in ctx_pending
    /\ ctx_pc = "prepare"
    /\ ctx_last.busyAtDestroy
    /\ ctx_pc' = "lost"
    /\ UNCHANGED <<ctx_caps, ctx_separate, frameIndex, ctx_swapchain, ctx_images,
                   ctx_pending, ctx_acquired, ctx_handles, ctx_refused, ctx_last>>
    /\ UNCHANGED not_ctx_vars

CtxGpuStep == \E i \in ctx_pending : CtxGpuComplete(i)

CtxGpuFaultStep == \E i \in ctx_pending : CtxGpuFault(i)

CtxNext ==
    \/ CtxAcquire \/ CtxPrepareStep \/ CtxPresent
    \/ CtxDestroyCall \/ CtxDestroyRelease \/ CtxDestroyAgain
    \/ CtxAcquireDestroyed \/ CtxPresentAfterDestroy
    \/ CtxGpuStep \/ CtxGpuFaultStep

SpecCtx == CtxInit /\ [][CtxNext]_vars

-----------------------------------------------------------------------------
(* asche context with one perFrameCtx for each swapchain image (src/context.go
   from line 507) and the platform that drives it (src/instance.go from line 376):
   platform.AcquireNextImage creates the two semaphores of a frame and hands them to
   context.BeginFrame, the application calls SubmitSwapchain, then
   platform.PresentImage.  Semaphores are numbered in the order of their creation. *)

(* newPerFrameCtx: both semaphore fields are left at their zero value *)
newPerFrameCtx ==
    [swapchainAcquireSemaphore |-> NullSemaphore, swapchainReleaseSemaphore |-> NullSemaphore]

(* perFrameCtx.SetSwapchainSemaphores: a field is assigned only inside the test
   that it holds a semaphore, which is then destroyed *)
SetSwapchainSemaphores(p, acquireSemaphore, releaseSemaphore) ==
    [swapchainAcquireSemaphore |->
         IF p.swapchainAcquireSemaphore # NullSemaphore THEN acquireSemaphore
         ELSE p.swapchainAcquireSemaphore,
     swapchainReleaseSemaphore |->
         IF p.swapchainReleaseSemaphore # NullSemaphore THEN releaseSemaphore
         ELSE p.swapchainReleaseSemaphore]

\* the semaphores SetSwapchainSemaphores destroys
SetSwapchainDestroys(p) ==
    {p.swapchainAcquireSemaphore, p.swapchainReleaseSemaphore} \ {NullSemaphore}

(* NewPlatform: context.OnPlatformUpdate makes a perFrameCtx for every image *)
FrameInit ==
    /\ NoRenderInstance
    /\ NoContext
    /\ sel = NoSelection
    /\ fn = NoFn
    /\ platform = NoPlatform
    /\ \E images \in 1..MaxFrameImages :
           perFrame = [NoPerFrame EXCEPT
                         !.pc = "idle",
                         !.perFrameCtxs = [i \in 1..images |-> newPerFrameCtx]]

(* context.OnPlatformUpdate after the swapchain was recreated: every perFrameCtx is
   destroyed, with the semaphores it holds, and made anew *)
OnPlatformUpdate ==
    /\ perFrame.pc = "outdated"
    /\ perFrame' = [perFrame EXCEPT
                      !.pc = "idle",
                      !.destroyed = @ \cup UNION {SetSwapchainDestroys(perFrame.perFrameCtxs[i]) :
                                                  i \in DOMAIN perFrame.perFrameCtxs},
                      !.perFrameCtxs = [i \in DOMAIN perFrame.perFrameCtxs |-> newPerFrameCtx]]
    /\ UNCHANGED not_frame_vars

(* platform.AcquireNextImage, with context.BeginFrame when an image was acquired;
   image index idx is element idx + 1 of perFrameCtxs *)
FrameAcquireNextImage(ret, idx) ==
    LET acquireSemaphore == perFrame.made + 1
        releaseSemaphore == perFrame.made + 2
        p == perFrame.perFrameCtxs[idx + 1]
        cleared == [perFrame EXCEPT !.begun = NoFrame, !.submit = NoSubmit,
                                    !.presentWait = None, !.ret = ret]
    IN
    /\ perFrame.pc = "idle"
    /\ perFrame.made + 2 <= MaxSemaphores
    /\ UNCHANGED not_frame_vars
    /\ IF ret \in {"Suboptimal", "OutOfDate"}
       THEN perFrame' = [cleared EXCEPT !.pc = "outdated", !.made = acquireSemaphore,
                                        !.destroyed = @ \cup {acquireSemaphore}]
       ELSE IF ret = "Success"
       THEN perFrame' = [cleared EXCEPT
                           !.pc = "begun", !.made = releaseSemaphore,
                           !.swapchainIndex = idx,
                           !.begun = [idx |-> idx, acquire |-> acquireSemaphore,
                                      release |-> releaseSemaphore],
                           !.destroyed = @ \cup SetSwapchainDestroys(p),
                           !.perFrameCtxs[idx + 1] =
                               SetSwapchainSemaphores(p, acquireSemaphore, releaseSemaphore)]
       ELSE perFrame' = [cleared EXCEPT !.made = acquireSemaphore,
                                        !.destroyed = @ \cup {acquireSemaphore}]

FrameAcquire ==
    \E ret \in AcquireResults, idx \in 0..(Len(perFrame.perFrameCtxs) - 1) :
        /\ ret # "Success" => idx = 0
        /\ FrameAcquireNextImage(ret, idx)

(* context.SubmitSwapchain: submitCommandBuffer with the semaphores of the
   perFrameCtx of c.swapchainIndex; a null semaphore is not waited on or signaled *)
SubmitSwapchain ==
    /\ perFrame.pc = "begun"
    /\ perFrame' = [perFrame EXCEPT
                      !.pc = "submitted",
                      !.submit =
                          [wait |-> perFrame.perFrameCtxs[perFrame.swapchainIndex + 1]
                                        .swapchainAcquireSemaphore,
                           signal |-> perFrame.perFrameCtxs[perFrame.swapchainIndex + 1]
                                          .swapchainReleaseSemaphore]]
    /\ UNCHANGED not_frame_vars

(* platform.PresentImage: vk.QueuePresent waits on
   p.context.getSwapchainReleaseSemaphore() *)
FramePresentImage(ret) ==
    /\ perFrame.pc = "submitted"
    /\ perFrame' = [perFrame EXCEPT
                      !.pc = IF ret \in {"Suboptimal", "OutOfDate"} THEN "outdated"
                             ELSE "idle",
                      !.ret = ret,
                      !.presentWait = perFrame.perFrameCtxs[perFrame.swapchainIndex + 1]
                                          .swapchainReleaseSemaphore]
    /\ UNCHANGED not_frame_vars

FramePresent == \E ret \in PresentResults : FramePresentImage(ret)

FrameNext == FrameAcquire \/ SubmitSwapchain \/ FramePresent \/ OnPlatformUpdate

SpecFrame == FrameInit /\ [][FrameNext]_vars

-----------------------------------------------------------------------------
(* Functions without state: VulkanMode.Has (two drafts, src/usage.go and
   src/swapchain.go), BaseDeviceExtensions.HasWanted with its use in
   CoreRenderInstance.Init, FindRequiredMemoryTypeFallback.  Flags are numbers and
   & and | work on their bits. *)

RECURSIVE BitAnd(_, _)
BitAnd(a, b) ==
    IF a = 0 \/ b = 0 THEN 0
    ELSE (a % 2) * (b % 2) + 2 * BitAnd(a \div 2, b \div 2)

RECURSIVE BitOr(_, _)
BitOr(a, b) ==
    IF a = 0 THEN b
    ELSE IF b = 0 THEN a
    ELSE (IF a % 2 = 1 \/ b % 2 = 1 THEN 1 ELSE 0) + 2 * BitOr(a \div 2, b \div 2)

RECURSIVE Shl(_, _)
Shl(a, i) == IF i = 0 THEN a ELSE Shl(2 * a, i - 1)

Modes == {VulkanCompute, VulkanGraphics, VulkanPresent}

\* the modes of a set OR-ed together
RECURSIVE OrAll(_)
OrAll(S) ==
    IF S = {} THEN VulkanNone
    ELSE LET m == CHOOSE x \in S : TRUE IN BitOr(m, OrAll(S \ {m}))

(* func (v VulkanMode) Has(mode VulkanMode) bool: `v&mode != 0` in src/usage.go,
   `v&mode == mode` in src/swapchain.go *)
VulkanModeHas(draft, v, mode) ==
    IF draft = "usage" THEN BitAnd(v, mode) # 0 ELSE BitAnd(v, mode) = mode

\* for _, act := range list { if req == act { has = true; break } }
Contains(list, req) == \E i \in 1..Len(list) : list[i] = req

(* BaseDeviceExtensions.HasWanted: (false, missing) when a wanted extension is not
   among the actual ones, (true, missing) with missing empty otherwise *)
HasWanted(wanted, actual) ==
    LET missing == SelectSeq(wanted, LAMBDA req : ~Contains(actual, req))
    IN  IF Len(missing) > 0 THEN <<FALSE, missing>> ELSE <<TRUE, missing>>

(* CoreRenderInstance.Init: missing, ext_string := core.device_extensions.HasWanted();
   if missing { return fmt.Errorf("Vulkan Missing Device Extensions ...") } *)
InitDeviceExtensions(wanted, actual) ==
    LET missing == HasWanted(wanted, actual)[1]
        ext_string == HasWanted(wanted, actual)[2]
    IN  [NoResult EXCEPT !.ok = missing, !.missing = ext_string,
                         !.result = IF missing THEN "missingExtensions"
                                    ELSE "deviceCreated"]

\* the first i in from..MaxMemoryTypes-1 that deviceRequirements allows and whose
\* flags share a bit with hostRequirements; MaxMemoryTypes if there is none
RECURSIVE FirstType(_, _, _, _)
FirstType(props, deviceRequirements, hostRequirements, from) ==
    IF from >= MaxMemoryTypes THEN MaxMemoryTypes
    ELSE IF /\ BitAnd(deviceRequirements, Shl(1, from)) # 0
            /\ BitAnd(props[from + 1], hostRequirements) # 0
    THEN from
    ELSE FirstType(props, deviceRequirements, hostRequirements, from + 1)

FindRequiredMemoryType(props, deviceRequirements, hostRequirements) ==
    LET i == FirstType(props, deviceRequirements, hostRequirements, 0)
    IN  IF i < MaxMemoryTypes THEN [NoResult EXCEPT !.index = i, !.ok = TRUE, !.result = "found"]
        ELSE [NoResult EXCEPT !.index = 0, !.ok = FALSE, !.result = "notFound"]

FindRequiredMemoryTypeFallback(props, deviceRequirements, hostRequirements) ==
    LET i == FirstType(props, deviceRequirements, hostRequirements, 0)
    IN  IF i < MaxMemoryTypes THEN [NoResult EXCEPT !.index = i, !.ok = TRUE, !.result = "found"]
        ELSE IF hostRequirements # 0
        THEN \* Fallback to the first one available
             FindRequiredMemoryType(props, deviceRequirements, 0)
        ELSE [NoResult EXCEPT !.index = 0, !.ok = FALSE, !.result = "notFound"]

DeviceExtensionNames == {"VK_KHR_swapchain", "VK_KHR_maintenance1"}

RECURSIVE ExtensionLists(_)
ExtensionLists(n) ==
    IF n = 0 THEN {<<>>}
    ELSE LET shorter == ExtensionLists(n - 1)
         IN  shorter \cup {Append(l, e) : l \in {x \in shorter : Len(x) = n - 1},
                                          e \in DeviceExtensionNames}

\* the calls and their arguments
Calls ==
    {[NoFn EXCEPT !.name = "Has", !.ored = S, !.v = OrAll(S), !.mode = m] :
        S \in SUBSET Modes, m \in Modes}
    \cup {[NoFn EXCEPT !.name = "Init", !.wanted = w, !.actual = a] :
             w \in ExtensionLists(MaxExtensions), a \in ExtensionLists(MaxExtensions)}
    \cup {[NoFn EXCEPT !.name = "FindRequiredMemoryTypeFallback", !.props = p,
                       !.deviceRequirements = d, !.hostRequirements = h] :
             p \in [1..MaxMemoryTypes -> 0..MaxPropertyFlags],
             d \in 0..(Shl(1, MaxMemoryTypes) - 1), h \in 0..MaxPropertyFlags}

FnInit ==
    /\ NoRenderInstance
    /\ NoContext
    /\ sel = NoSelection
    /\ perFrame = NoPerFrame
    /\ fn \in Calls
    /\ platform = NoPlatform

Returns(name, draft, out) ==
    /\ fn.name = name
    /\ fn.draft = "none"
    /\ fn' = [fn EXCEPT !.draft = draft, !.out = out]
    /\ UNCHANGED not_fn_vars

HasCall ==
    \E d \in {"usage", "swapchain"} :
        Returns("Has", d, [NoResult EXCEPT !.ok = VulkanModeHas(d, fn.v, fn.mode), !.result = "done"])

InitCall == Returns("Init", "instance", InitDeviceExtensions(fn.wanted, fn.actual))

MemoryTypeCall ==
    Returns("FindRequiredMemoryTypeFallback", "extensions",
            FindRequiredMemoryTypeFallback(fn.props, fn.deviceRequirements,
                                           fn.hostRequirements))

FnNext == HasCall \/ InitCall \/ MemoryTypeCall

SpecFn == FnInit /\ [][FnNext]_vars

-----------------------------------------------------------------------------
(* NewPlatform and platform.Destroy (src/platform.go).  The application gives the
   mode and the surface, the physical device its queue families; VulkanMode.Has is
   the one of either draft. *)

QueueFlagBits == {"compute", "graphics"}

\* vk.QueueComputeBit is required with VulkanCompute, vk.QueueGraphicsBit with
\* VulkanGraphics
ModeOfBit(b) == IF b = "compute" THEN VulkanCompute ELSE VulkanGraphics

\* a queue family: its QueueFlags, and what vk.GetPhysicalDeviceSurfaceSupport says
QueueFamilies == [flags : SUBSET QueueFlagBits, present : BOOLEAN]

FamilyLists(n) == UNION {[1..k -> QueueFamilies] : k \in 0..n}

\* the variables of the selection loop, as Go initialises them
NoneFound ==
    [graphicsFound |-> FALSE, presentFound |-> FALSE, separateQueue |-> FALSE,
     graphicsQueueIndex |-> 0, presentQueueIndex |-> 0]

(* The loop over the queue families from family i on: with a graphics family found
   it looks for a family that presents and stops at it; a family with a required
   flag is taken for graphics, and the loop stops when presentation is not needed
   or the family presents too *)
RECURSIVE FindQueueFamilies(_, _, _, _, _)
FindQueueFamilies(draft, mode, families, i, st) ==
    IF i >= Len(families) THEN st
    ELSE LET f == families[i + 1]
             sep == IF st.graphicsFound THEN [st EXCEPT !.separateQueue = TRUE] ELSE st
             required == {b \in QueueFlagBits : VulkanModeHas(draft, mode, ModeOfBit(b))}
             needsPresent == VulkanModeHas(draft, mode, VulkanPresent)
             supportsPresent == needsPresent /\ f.present
             taken == [sep EXCEPT !.graphicsQueueIndex = i, !.graphicsFound = TRUE]
         IN  IF st.graphicsFound /\ f.present
             THEN [sep EXCEPT !.presentQueueIndex = i, !.presentFound = TRUE]
             ELSE IF f.flags \cap required # {}
             THEN IF ~needsPresent \/ supportsPresent THEN taken
                  ELSE FindQueueFamilies(draft, mode, families, i + 1, taken)
             ELSE FindQueueFamilies(draft, mode, families, i + 1, sep)

(* What NewPlatform returns: an error, a panic of orPanic that nothing recovers
   (the deferred checkErr is commented out), or the platform *)
NewPlatformResult(p, found) ==
    IF VulkanModeHas(p.draft, p.mode, VulkanPresent) /\ ~p.surface THEN "noSurface"
    ELSE IF Len(p.families) = 0 THEN "noQueueFamilies"
    ELSE IF found.separateQueue /\ ~found.presentFound THEN "noPresentQueue"
    ELSE IF ~found.graphicsFound THEN "noQueueFamily"
    ELSE IF p.deviceRefused THEN "panic"
    ELSE "ok"

PlatformInit ==
    /\ NoRenderInstance
    /\ NoContext
    /\ sel = NoSelection
    /\ perFrame = NoPerFrame
    /\ fn = NoFn
    /\ platform \in {[NoPlatform EXCEPT !.pc = "new", !.draft = d, !.mode = m,
                                         !.surface = s, !.families = f,
                                         !.deviceRefused = r, !.onCleanup = c] :
                        d \in {"usage", "swapchain"}, m \in Modes \cup {VulkanNone},
                        s \in BOOLEAN, f \in FamilyLists(MaxQueueFamilies),
                        r \in BOOLEAN, c \in BOOLEAN}

(* NewPlatform from the surface on: the queue families, the device and its queues,
   and in present mode preparePresent, prepareSwapchain and prepare(false) *)
NewPlatform ==
    LET found == FindQueueFamilies(platform.draft, platform.mode, platform.families, 0,
                                   NoneFound)
        result == NewPlatformResult(platform, found)
        present == VulkanModeHas(platform.draft, platform.mode, VulkanPresent)
    IN
    /\ platform.pc = "new"
    /\ platform' =
           IF result # "ok"
           THEN [platform EXCEPT !.pc = "failed", !.result = result]
           ELSE [platform EXCEPT
                   !.pc = "ready",
                   !.result = result,
                   !.graphicsQueueIndex = found.graphicsQueueIndex,
                   !.presentQueueIndex = found.presentQueueIndex,
                   !.separateQueue = found.separateQueue,
                   !.graphicsQueue = found.graphicsQueueIndex,
                   !.presentQueue = IF present /\ found.separateQueue
                                    THEN found.presentQueueIndex ELSE None,
                   !.semaphores = IF present THEN frameLag ELSE 0,
                   !.made = {"device"} \cup (IF present
                                             THEN {"surface", "semaphores", "swapchain",
                                                   "cmdPool"}
                                             ELSE {})]
    /\ UNCHANGED not_platform_vars

HasSeparatePresentQueue(p) == p.presentQueueIndex # p.graphicsQueueIndex

GraphicsQueue(p) == p.graphicsQueue

PresentQueue(p) ==
    IF p.graphicsQueueIndex # p.presentQueueIndex THEN p.presentQueue ELSE p.graphicsQueue

(* platform.Destroy: vk.DeviceWaitIdle, context.destroy, then the surface, the
   device and the instance.  context.destroy indexes each semaphore slice from 0 to
   c.frameLag - 1; an index past the end of a slice is a panic that nothing
   recovers *)
PlatformDestroy ==
    LET head == <<"waitidle">> \o (IF platform.onCleanup THEN <<"onCleanup">> ELSE <<>>)
        crashes == frameLag > platform.semaphores
    IN
    /\ platform.pc = "ready"
    /\ platform' =
           IF crashes
           THEN [platform EXCEPT !.pc = "crashed", !.ops = head \o <<"panic">>]
           ELSE [platform EXCEPT
                   !.pc = "destroyed",
                   !.ops = head
                           \o <<"destroySemaphores">>
                           \o (IF "swapchain" \in platform.made
                               THEN <<"destroyResources", "destroySwapchain">>
                               ELSE <<>>)
                           \o <<"destroyPool">>
                           \o (IF "surface" \in platform.made
                               THEN <<"destroySurface">> ELSE <<>>)
                           \o <<"destroyDevice", "destroyInstance">>]
    /\ UNCHANGED not_platform_vars

PlatformNext == NewPlatform \/ PlatformDestroy

SpecPlatform == PlatformInit /\ [][PlatformNext]_vars

-----------------------------------------------------------------------------
(* The parameters of vk.CreateSwapchain.  Three drafts compute them:
   "dieselvk" is NewCoreSwapchain (src/swapchain.go; CoreSwapchain.Init of
   src/unnamed/part_002 is the same), "fences" is context.prepareSwapchain of
   src/context.go, "frameLag" is context.prepareSwapchain of
   src/test/shaders/vertex.vert.  Each query of the surface is answered by the
   driver; the code's answer to it is computed as the code computes it. *)

Drafts == {"dieselvk", "fences", "frameLag"}

Undefined == "Undefined"   \* vk.FormatUndefined

DefinedFormats == {"B8G8R8A8Unorm", "R8G8B8A8Unorm", "A8B8G8R8SrgbPack32"}

ColorSpaces == {"SrgbNonlinear", "ExtendedSrgbLinear"}

SurfaceFormats == [format : DefinedFormats, colorSpace : ColorSpaces]

RECURSIVE FormatLists(_)
FormatLists(n) ==
    IF n = 0 THEN {<<>>}
    ELSE LET shorter == FormatLists(n - 1)
         IN  shorter \cup {Append(l, f) : l \in {x \in shorter : Len(x) = n - 1},
                                          f \in SurfaceFormats}

\* what vkGetPhysicalDeviceSurfaceFormatsKHR can report: the single entry with the
\* undefined format, or a list of defined formats
ReportedFormats ==
    {<<[format |-> Undefined, colorSpace |-> cs]>> : cs \in ColorSpaces}
    \cup FormatLists(MaxFormats)

\* the format put in place of the undefined one: dimensions.Format, which the
\* application sets; the dieselvk draft has FormatA8b8g8r8SrgbPack32 written in
PreferredFormat(draft, dimensionsFormat) ==
    IF draft = "dieselvk" THEN "A8B8G8R8SrgbPack32" ELSE dimensionsFormat

\* the Width and Height of the SwapchainDimensions requested before
RequestedDimensions == [width |-> 640, height |-> 480]

CurrentExtents ==
    {[width |-> MaxUint32, height |-> MaxUint32], [width |-> 0, height |-> 0],
     [width |-> 800, height |-> 600]}

QueriedCaps ==
    {c \in [min : 1..MaxQueriedImages, max : 0..MaxQueriedImages] :
        c.max = 0 \/ c.min <= c.max}

CompositeAlphaFlags == <<"Opaque", "PreMultiplied", "PostMultiplied", "Inherit">>

AlphaModes == {CompositeAlphaFlags[i] : i \in 1..Len(CompositeAlphaFlags)}

(* Variant: the format is taken as reported, the undefined one included *)
FirstFormatAsReported(draft, formats, dimensionsFormat) ==
    IF Len(formats) = 0
    THEN [NoOutcome EXCEPT !.result = "fatal"]
    ELSE [NoOutcome EXCEPT !.result = "ok", !.format = formats[1].format,
                           !.colorSpace = formats[1].colorSpace]

(* Select a proper surface format *)
SelectSurfaceFormat(draft, formats, dimensionsFormat) ==
    LET first == [NoOutcome EXCEPT !.result = "ok", !.format = formats[1].format,
                                   !.colorSpace = formats[1].colorSpace]
        preferred == [first EXCEPT !.format = PreferredFormat(draft, dimensionsFormat)]
    IN  IF draft = "dieselvk"
        THEN \* if formatCount >= 1 { ... } else { Fatal(...) }
             IF Len(formats) >= 1
             THEN IF formats[1].format = Undefined THEN preferred ELSE first
             ELSE [NoOutcome EXCEPT !.result = "fatal"]
        ELSE \* if formatCount == 1 { ... } else if formatCount == 0 { error } else { first }
             IF Len(formats) = 1
             THEN IF formats[1].format = Undefined THEN preferred ELSE first
             ELSE IF Len(formats) = 0
             THEN [NoOutcome EXCEPT !.result = IF draft = "fences" THEN "error" ELSE "panic"]
             ELSE first

(* Setup swapchain parameters: the extent *)
SelectExtent(draft, current) ==
    IF current.width = MaxUint32
    THEN IF draft = "dieselvk"
         THEN [NoOutcome EXCEPT !.result = "fatal"]
         ELSE [NoOutcome EXCEPT !.result = "ok", !.extent = RequestedDimensions]
    ELSE [NoOutcome EXCEPT !.result = "ok", !.extent = current]

\* the number of images each draft would like to have: desired_depth, a
\* parameter of NewCoreSwapchain, or one more than the surface's minimum
DesiredImages(draft, desired, caps) == IF draft = "dieselvk" THEN desired ELSE caps.min + 1

(* Determine the number of VkImage's to use in the swapchain *)
SelectImageCount(draft, desired, caps) ==
    [NoOutcome EXCEPT
       !.result = "ok",
       !.count = IF draft = "dieselvk" THEN ClampDepth(desired, caps)
                 ELSE DesiredSwapchainImages(caps)]

(* Find a supported composite alpha mode; the "fences" draft passes
   vk.CompositeAlphaInheritBit whatever the surface supports *)
SelectCompositeAlpha(draft, supported) ==
    LET hits == {i \in 1..Len(CompositeAlphaFlags) : CompositeAlphaFlags[i] \in supported}
        first == CHOOSE i \in hits : \A j \in hits : i <= j
    IN  [NoOutcome EXCEPT
           !.result = "ok",
           !.alpha = IF draft = "fences" THEN "Inherit"
                     ELSE IF hits = {} THEN "Opaque"
                     ELSE CompositeAlphaFlags[first]]

(* vk.GetSwapchainImages and the per-image entries built from its answer.  dieselvk:
   core.images has the requested length, core.image_views the returned one,
   core.framebuffers core.depth, and the loop up to the returned count indexes
   core.images.  The context drafts build one entry for every image returned. *)
GetSwapchainImages(draft, desired, caps, returned) ==
    LET requested == SelectImageCount(draft, desired, caps).count
    IN  IF draft = "dieselvk"
        THEN [NoOutcome EXCEPT
                !.result = IF returned > requested THEN "panic" ELSE "ok",
                !.count = requested, !.images = requested, !.views = returned,
                !.framebuffers = requested]
        ELSE [NoOutcome EXCEPT
                !.result = "ok", !.count = requested, !.images = returned,
                !.views = returned, !.framebuffers = returned]

\* the queries and the answers the driver can give to each
Queries ==
    {[NoSelection EXCEPT !.aspect = "format", !.formats = f, !.preferred = p] :
        f \in ReportedFormats, p \in DefinedFormats}
    \cup {[NoSelection EXCEPT !.aspect = "extent", !.extent = e] : e \in CurrentExtents}
    \cup {[NoSelection EXCEPT !.aspect = "count", !.caps = c, !.desired = d] :
             c \in QueriedCaps, d \in 1..(MaxQueriedImages + 1)}
    \cup {[NoSelection EXCEPT !.aspect = "alpha", !.alpha = a] :
             a \in (SUBSET AlphaModes) \ {{}}}
    \cup {[NoSelection EXCEPT !.aspect = "images", !.caps = c, !.returned = r,
                                !.desired = DesiredDepth] :
             c \in QueriedCaps, r \in 1..(MaxQueriedImages + MaxExtraImages)}

SelInit ==
    /\ NoRenderInstance
    /\ NoContext
    /\ perFrame = NoPerFrame
    /\ fn = NoFn
    /\ platform = NoPlatform
    /\ sel \in Queries

Answer(aspect, draft, out) ==
    /\ sel.aspect = aspect
    /\ sel.draft = "none"
    /\ sel' = [sel EXCEPT !.draft = draft, !.out = out]
    /\ UNCHANGED not_sel_vars

FormatStep == \E d \in Drafts : Answer("format", d, SelectSurfaceFormat(d, sel.formats, sel.preferred))

ExtentStep == \E d \in Drafts : Answer("extent", d, SelectExtent(d, sel.extent))

ImageCountStep == \E d \in Drafts : Answer("count", d, SelectImageCount(d, sel.desired, sel.caps))

CompositeAlphaStep == \E d \in Drafts : Answer("alpha", d, SelectCompositeAlpha(d, sel.alpha))

\* a swapchain returns at least the number of images it was asked for
ImagesStep ==
    \E d \in Drafts :
        /\ sel.returned >= SelectImageCount(d, sel.desired, sel.caps).count
        /\ sel.returned <= SelectImageCount(d, sel.desired, sel.caps).count + MaxExtraImages
        /\ Answer("images", d, GetSwapchainImages(d, sel.desired, sel.caps, sel.returned))

SelNext == FormatStep \/ ExtentStep \/ ImageCountStep \/ CompositeAlphaStep \/ ImagesStep

SpecSel == SelInit /\ [][SelNext]_vars

-----------------------------------------------------------------------------
(* Properties of CoreRenderInstance.Render / Resize (specification Spec) *)

RenderCall == last.kind = "render"

(* C1: with two or more slots, a tick resets and re-records the command buffer of
   its slot, and hands the slot's semaphores and command buffer to acquire and
   submit, only after it has seen the slot's fence signaled and while no GPU work
   of the slot's previous use is outstanding. *)
C1_SlotReusedOnlyAfterFence ==
    (RenderCall /\ depth >= 2) =>
        /\ last.fenceSeen
        /\ ~last.recordBusy
        /\ ~last.subBusy
        /\ Before(last.ops, "wait", "record")
        /\ Before(last.ops, "wait", "acquire")

C1_Witness ==
    /\ RenderCall /\ depth >= 2
    /\ clean /\ frames.n > depth
    /\ last.sub = "Success"
    /\ \E s \in DOMAIN gpu : s # last.slot /\ gpu[s] = "exec"

(* C2 as stated: a tick whose acquisition returns OutOfDate rebuilds, acquires a
   second time in the same tick, and then either submits and presents the frame
   or ends with a fatal error. *)
C2_RetriesAcquisitionInSameTick ==
    (RenderCall /\ last.done /\ last.acq = "OutOfDate") =>
        /\ Count(last.ops, "acquire") = 2
        /\ \/ Has(last.ops, "submit") /\ Has(last.ops, "present")
           \/ Has(last.ops, "fatal")

(* C2 as the code behaves: a tick whose acquisition returns OutOfDate runs the
   rebuild exactly once and returns; it acquires once only, submits and presents
   nothing and leaves the slot index where it was.  It reports no error; the one
   way it does not return is a swapchain creation that fails inside the rebuild,
   which ends the process. *)
C2_RebuildsOnceAndReturns ==
    (RenderCall /\ last.done /\ last.acq = "OutOfDate") =>
        /\ Count(last.ops, "createSwapchain") = 1
        /\ Count(last.ops, "acquire") = 1
        /\ Before(last.ops, "acquire", "createSwapchain")
        /\ ~Has(last.ops, "submit")
        /\ ~Has(last.ops, "present")
        /\ current_buffer = last.slot
        /\ IF Has(last.ops, "fatal")
           THEN status = "fatal" /\ ~Has(last.ops, "init")
           ELSE status = "running" /\ Count(last.ops, "init") = 1

C2_Witness ==
    RenderCall /\ last.done /\ last.acq = "OutOfDate" /\ rebuilds = 1

(* C3: repeated rebuilds do not grow the number of live GPU objects: after every
   rebuild it equals the number alive after the first rebuild. *)
C3_LiveObjectsStableOverRebuilds ==
    (rebuilds >= 1 /\ pc = "idle") => TotalLive(live) = live_first

(* C4: a tick whose acquisition returns Suboptimal still submits and presents the
   frame, and rebuilds after the presentation. *)
C4_SuboptimalFrameIsPresented ==
    (RenderCall /\ last.done /\ last.acq = "Suboptimal") =>
        /\ Has(last.ops, "submit")
        /\ Has(last.ops, "present")
        /\ Has(last.ops, "init")
        /\ Before(last.ops, "present", "init")

(* C5: a tick whose presentation returns OutOfDate rebuilds the swapchain before
   it ends. *)
C5_PresentOutOfDateRebuilds ==
    (RenderCall /\ last.done /\ last.pres = "OutOfDate") => Has(last.ops, "init")

(* C6: the framebuffer recorded into the command buffer a tick submits is the one
   of the image its acquisition returned, and that image is the one presented. *)
C6_FramebufferOfAcquiredImage ==
    (RenderCall /\ Has(last.ops, "present") /\ last.image # None) =>
        /\ last.fb = last.image
        /\ last.presImage = last.image

(* C7: whenever a tick submits, its submission waits on a semaphore that the
   acquisition of the same tick signaled: the slot's acquire semaphore, at the
   color-attachment-output stage; it signals the slot's release semaphore and
   fence, the presentation waits on that release semaphore, and the slot index
   advances only after the presentation. *)
C7_EveryWaitHasItsSignal ==
    (RenderCall /\ Has(last.ops, "submit")) =>
        /\ ImageAcquired(last.acq)
        /\ last.acqSem = last.slot
        /\ last.subWait = last.acqSem
        /\ last.subStage = "ColorAttachmentOutput"
        /\ last.subSignal = last.slot
        /\ last.subFence = last.slot
        /\ Has(last.ops, "present") => last.presWait = last.subSignal
        /\ Before(last.ops, "present", "advance")

(* C8: when a tick starts recording, at most depth - 1 submitted frames are still
   to complete on the GPU. *)
C8_AtMostDepthMinusOneAhead ==
    RenderCall => last.ahead <= depth - 1

C8_Witness ==
    RenderCall /\ depth = 3 /\ last.ahead = depth - 1 /\ last.sub = "Success"

(* C9: while the swapchain never goes stale, n ticks make n submissions and n
   presents, tick k uses slot (k - 1) mod depth, and every completed tick leaves
   the slot index at (previous + 1) mod depth; with depth 3 the ten ticks use
   slots 0,1,2,0,1,2,0,1,2,0. *)
C9_RoundRobinOverCleanTicks ==
    /\ clean =>
        /\ frames.submits = frames.n
        /\ frames.presents = frames.n
        /\ current_buffer = frames.n % depth
        /\ frames.n > 0 => last.slot = (frames.n - 1) % depth
    /\ (RenderCall /\ Has(last.ops, "advance")) =>
        current_buffer = (last.slot + 1) % depth
    /\ (RenderCall /\ ~Has(last.ops, "advance")) => current_buffer = last.slot

C9_Witness ==
    /\ clean /\ depth = 3
    /\ frames.n = 10 /\ frames.submits = 10 /\ frames.presents = 10
    /\ last.slot = 0 /\ current_buffer = 1

(* C11: a rebuild gives the swapchain it holds to the creation call as
   oldSwapchain, destroys that previous swapchain and no other, after the creation
   succeeded, and holds the new, live swapchain afterwards; when the creation
   fails the previous swapchain stays the one held. *)
C11_OldSwapchainHandedOver ==
    (last.done /\ Has(last.ops, "createSwapchain")) =>
        /\ last.swapOld = last.swapHeld
        /\ IF Has(last.ops, "fatal")
           THEN swapchain.held = last.swapHeld /\ last.swapDestroyed = None
           ELSE /\ last.swapDestroyed = last.swapHeld
                /\ swapchain.held = last.swapNew
                /\ swapchain.held \in swapchain.alive

(* C16: an OutOfDate or Suboptimal result of the acquisition or of the
   presentation is not an error of the tick: Render returns with the process
   running, and a stale acquisition does nothing but run the rebuild (nothing is
   submitted or presented).  The process ends in such a tick only when the
   swapchain creation of the rebuild itself is refused. *)
C16_StaleResultsOnlyRebuild ==
    (RenderCall /\ last.done
       /\ (last.acq \in {"OutOfDate", "Suboptimal"}
           \/ last.pres \in {"OutOfDate", "Suboptimal"})) =>
        /\ Has(last.ops, "fatal") =>
               /\ Has(last.ops, "createSwapchain")
               /\ ~Has(last.ops, "init")
        /\ ~Has(last.ops, "fatal") => status = "running"
        /\ last.acq \in {"OutOfDate", "Suboptimal"} =>
               /\ Count(last.ops, "createSwapchain") = 1
               /\ ~Has(last.ops, "submit")
               /\ ~Has(last.ops, "present")

\* a tick whose acquisition was Suboptimal has rebuilt and returned, still running
C16_Witness ==
    /\ RenderCall /\ last.done
    /\ last.acq = "Suboptimal"
    /\ Has(last.ops, "init")
    /\ status = "running"

(* C17: a device loss reported by the acquisition or by the submission comes back
   to the caller of Render as an error, and the process keeps running. *)
C17_DeviceLostReturnedToCaller ==
    (RenderCall /\ (last.acq = "DeviceLost" \/ last.sub = "DeviceLost")) =>
        /\ status = "running"
        /\ ~Has(last.ops, "fatal")

(* C20: a rebuild that finds the surface extent (0, 0) creates no swapchain. *)
C20_ZeroExtentCreatesNothing ==
    last.extentZero => ~Has(last.ops, "createSwapchain")

(* C29: every fence Render resets is passed to a queue submission before Render
   returns, so on every path, the early return after a stale acquisition included,
   the next wait on that slot's fence eventually completes under a fair GPU:
   a fence that was reset is signaled again while the instance runs. *)
C29_ResetFenceSignaledAgain ==
    \A s \in 0..(MaxSurfaceImages - 1) :
        [](((s \in DOMAIN fence_swapchain) /\ ~fence_swapchain[s] /\ status = "running")
             => <>(((s \in DOMAIN fence_swapchain) /\ fence_swapchain[s])
                   \/ status # "running"))

-----------------------------------------------------------------------------
(* Properties of the asche context (specification SpecCtx) *)

(* C10: a rebuild waits for the device to be idle before it destroys the old
   swapchain and the per-image resources, and none of them is destroyed while
   submitted GPU work may still use it. *)
C10_IdleBeforeRebuildDestroys ==
    (ctx_last.kind = "acquire" /\ Has(ctx_last.ops, "createSwapchain")) =>
        /\ Before(ctx_last.ops, "waitidle", "destroySwapchain")
        /\ Before(ctx_last.ops, "waitidle", "destroyResources")
        /\ ~ctx_last.busyAtDestroy

(* C12: over any sequence of build, rebuild and destroy calls, no handle is
   destroyed or freed a second time. *)
C12_NothingDestroyedTwice == ctx_handles.twice = {}

(* C13: once Destroy has returned, also after a rebuild that failed part-way, no
   handle the context created is left alive: none is still held and none was
   dropped without being destroyed. *)
C13_DestroyReleasesEverything ==
    ctx_pc = "destroyed" =>
        /\ \A k \in CtxKinds : ctx_handles.own[k] # "live"
        /\ ctx_handles.lost = {}

(* C14: platform.Destroy releases its first handle only after the wait for the
   idle device has returned, so no submitted frame is executing when the
   semaphores, image resources, swapchain, pools, surface and device go. *)
C14_DestroyWaitsForIdle ==
    (ctx_last.kind = "destroy" /\ Has(ctx_last.ops, "destroySemaphores")) =>
        /\ ctx_last.ops[1] = "waitidle"
        /\ Count(ctx_last.ops, "waitidle") = 1
        /\ ~ctx_last.busyAtDestroy
        /\ ctx_pending = {}

\* Destroy was called while frames were executing, and has released everything
C14_Witness ==
    /\ ctx_pc = "destroyed"
    /\ ctx_last.busyAtCall
    /\ Has(ctx_last.ops, "destroyDevice")

(* C15: a Destroy call on a platform that is already destroyed returns without an
   error and leaves the platform destroyed. *)
C15_TeardownIdempotent ==
    (ctx_last.kind = "destroy" /\ ctx_last.done) =>
        /\ ctx_pc = "destroyed"
        /\ ~ctx_last.err

(* C18: every image index presented was acquired, with Success or Suboptimal, from
   the swapchain it is presented to: the index of an OutOfDate acquisition and an
   index acquired before a rebuild never reach the swapchain held now. *)
C18_PresentedIndexOfCurrentSwapchain ==
    (ctx_last.kind = "present" /\ Has(ctx_last.ops, "present")) =>
        /\ ImageAcquired(ctx_last.acquireRet)
        /\ ctx_last.swapAtAcquire = ctx_last.swapAtPresent
        /\ ctx_last.image \in 0..(ctx_images - 1)

\* an image is presented to a swapchain made by a rebuild
C18_Witness ==
    /\ ctx_last.kind = "present"
    /\ ctx_last.swapAtPresent > 1
    /\ ctx_last.swapAtAcquire = ctx_last.swapAtPresent

(* C19: onInvalidate runs once in a call that acquired an image, with the index of
   that image, and does not run in a call whose acquisition returned OutOfDate or
   an error. *)
C19_InvalidateOnlyForAcquiredImage ==
    (ctx_last.kind = "acquire" /\ Has(ctx_last.ops, "onInvalidate")) =>
        /\ ImageAcquired(ctx_last.ret)
        /\ Count(ctx_last.ops, "onInvalidate") = 1
        /\ ctx_last.invalidated = ctx_last.image

(* C31: 0 <= frameIndex < frameLag in every reachable state and each semaphore
   slice has frameLag entries, so every lookup by frameIndex is in range;
   frameIndex changes only by +1 modulo frameLag, in a PresentImage call (every
   one that presents) or in an AcquireNextImage call whose acquisition returned
   OutOfDate. *)
C31_FrameIndexInRange ==
    /\ [](/\ frameIndex \in 0..(frameLag - 1)
          /\ \A a \in DOMAIN SemaphoreSlices : frameIndex < SemaphoreSlices[a]
          /\ (ctx_last.kind = "present" /\ Has(ctx_last.ops, "present")) =>
                 frameIndex = (ctx_last.frame + 1) % frameLag)
    /\ [][frameIndex' # frameIndex =>
             /\ frameIndex' = (frameIndex + 1) % frameLag
             /\ ctx_last'.frame = frameIndex
             /\ \/ ctx_last'.kind = "present"
                \/ ctx_last'.kind = "acquire" /\ ctx_last'.ret = "OutOfDate"]_vars

\* a present in the last slot wraps the index to 0
C31_Witness ==
    /\ ctx_last.kind = "present"
    /\ ctx_last.frame = frameLag - 1
    /\ frameIndex = 0

(* C32: context.AcquireNextImage never panics: when the acquisition returns
   something other than Success, Suboptimal or OutOfDate, or onInvalidate, the
   rebuild or a queue submission fails, the call returns an error; when the failure
   comes before the graphics submission nothing is submitted in that call. *)
C32_AcquireReturnsItsFailures ==
    /\ []((ctx_last.kind = "acquire" /\ ctx_last.done) =>
            /\ ctx_pc # "crashed"
            /\ ctx_last.ret \notin {"Success", "Suboptimal", "OutOfDate"} => ctx_last.err
            /\ Has(ctx_last.ops, "panic") => ctx_last.err
            /\ ctx_last.refused # "none" => ctx_last.err
            /\ (ctx_last.err /\ ~Has(ctx_last.ops, "submitOwnership")) =>
                   ctx_last.ops[Len(ctx_last.ops)] = "panic")
    /\ [][(ctx_last'.kind = "acquire" /\ ctx_last' # ctx_last /\ ctx_last'.err
             /\ ~Has(ctx_last'.ops, "submitOwnership"))
            => ctx_pending' = ctx_pending]_vars

(* C27: Destroyed is terminal: once destroy has been performed, no later call
   acquires, submits or presents, and no call uses a semaphore, fence, swapchain or
   command buffer that destroy released. *)
C27_DestroyedIsTerminal ==
    ctx_last.afterDestroy =>
        /\ ~Has(ctx_last.ops, "acquire")
        /\ ~Has(ctx_last.ops, "submit")
        /\ ~Has(ctx_last.ops, "present")
        /\ ctx_last.usedDead = {}

(* C30: over any sequence of platform creation, rebuilds (successful or failing)
   and destroy, the callbacks onPrepare and onCleanup strictly alternate, starting
   with onPrepare: neither is invoked twice without the other in between. *)
C30_CallbacksAlternate ==
    LET invoked == <<ctx_last.callbackBefore>> \o Callbacks(ctx_last.ops)
    IN  \A i \in 1..(Len(invoked) - 1) :
            /\ invoked[i] # invoked[i + 1]
            /\ invoked[i] = "none" => invoked[i + 1] = "onPrepare"

-----------------------------------------------------------------------------
(* Properties of the parameters a swapchain is created with (specification SpecSel) *)

Answered(aspect) == sel.aspect = aspect /\ sel.draft # "none"

\* C21: when the surface reports an indeterminate current extent (width equal to the
\* maximum 32-bit value) the swapchain is built with the width and height requested
\* before, otherwise with exactly the surface's current extent.
C21_ExtentFromSurfaceOrRequest ==
    Answered("extent") =>
        /\ sel.out.result = "ok"
        /\ sel.out.extent = IF sel.extent.width = MaxUint32
                            THEN RequestedDimensions ELSE sel.extent

\* the position of the first entry of a list of formats with the given format, 0 if none
FirstWith(formats, format) ==
    LET hits == {i \in 1..Len(formats) : formats[i].format = format}
    IN  IF hits = {} THEN 0 ELSE CHOOSE i \in hits : \A j \in hits : i <= j

\* C22: when the surface reports the single format {Undefined, colorSpace}, the
\* selected format keeps that colour space and its Format becomes the preferred
\* format; when it reports several formats none of which is the preferred one, the
\* first format reported is selected.
C22_UndefinedOrFirstFormat ==
    Answered("format") =>
        LET preferred == PreferredFormat(sel.draft, sel.preferred)
        IN  /\ (Len(sel.formats) = 1 /\ sel.formats[1].format = Undefined) =>
                   /\ sel.out.result = "ok"
                   /\ sel.out.format = preferred
                   /\ sel.out.colorSpace = sel.formats[1].colorSpace
            /\ (Len(sel.formats) > 1 /\ FirstWith(sel.formats, preferred) = 0) =>
                   /\ sel.out.result = "ok"
                   /\ sel.out.format = sel.formats[1].format
                   /\ sel.out.colorSpace = sel.formats[1].colorSpace

C22_Witness ==
    /\ Answered("format")
    /\ sel.draft = "frameLag"
    /\ sel.formats = <<[format |-> Undefined, colorSpace |-> "ExtendedSrgbLinear"]>>
    /\ sel.preferred = "R8G8B8A8Unorm"
    /\ sel.out.format = "R8G8B8A8Unorm"
    /\ sel.out.colorSpace = "ExtendedSrgbLinear"

\* C23: for every list of surface formats that contains the preferred format at any
\* position, the selected format is the entry equal to the preferred format.
C23_ExactMatchPreferred ==
    Answered("format") =>
        LET preferred == PreferredFormat(sel.draft, sel.preferred)
            at == FirstWith(sel.formats, preferred)
        IN  at > 0 =>
                /\ sel.out.result = "ok"
                /\ sel.out.format = preferred
                /\ \E i \in 1..Len(sel.formats) :
                       /\ sel.formats[i].format = preferred
                       /\ sel.formats[i].colorSpace = sel.out.colorSpace

\* desiredDepth clamped into [minImageCount, maxImageCount], 0 for no upper limit
Clamped(desiredDepth, minImageCount, maxImageCount) ==
    IF desiredDepth < minImageCount THEN minImageCount
    ELSE IF maxImageCount > 0 /\ desiredDepth > maxImageCount THEN maxImageCount
    ELSE desiredDepth

\* C24: for every desiredDepth, minImageCount and maxImageCount (0 for no upper limit,
\* minImageCount <= maxImageCount otherwise) the image count requested from the
\* swapchain is desiredDepth clamped into [minImageCount, maxImageCount].
C24_ImageCountClamped ==
    Answered("count") =>
        sel.out.count =
            Clamped(DesiredImages(sel.draft, sel.desired, sel.caps), sel.caps.min, sel.caps.max)

C24_Witness ==
    /\ Answered("count")
    /\ sel.draft = "dieselvk"
    /\ sel.desired < sel.caps.min
    /\ sel.out.count = sel.caps.min

\* C25: the number of per-image entries held by the core (images, image views,
\* framebuffers) equals the number of images the current swapchain actually
\* returned, so every index the swapchain can return indexes an existing entry.
C25_EntryPerReturnedImage ==
    Answered("images") =>
        /\ sel.out.result = "ok"
        /\ sel.out.images = sel.returned
        /\ sel.out.views = sel.returned
        /\ sel.out.framebuffers = sel.returned

\* C26: the composite-alpha mode passed to swapchain creation is the first mode in
\* the order opaque, pre-multiplied, post-multiplied, inherit that the surface
\* supports; an unsupported mode is never selected when a supported one exists.
C26_FirstSupportedCompositeAlpha ==
    Answered("alpha") =>
        /\ sel.out.alpha \in sel.alpha
        /\ \A i \in 1..Len(CompositeAlphaFlags) :
               CompositeAlphaFlags[i] = sel.out.alpha =>
                   \A j \in 1..(i - 1) : CompositeAlphaFlags[j] \notin sel.alpha

-----------------------------------------------------------------------------
(* Properties of the context with BeginFrame (specification SpecFrame) *)

\* C28: after BeginFrame(swapchainIdx, acquireSemaphore, releaseSemaphore) the
\* following SubmitSwapchain waits on exactly that acquireSemaphore and signals
\* exactly that releaseSemaphore, and the following PresentImage waits on that
\* releaseSemaphore, from the first frame on every swapchain index.
C28_FrameSemaphoresUsed ==
    /\ perFrame.submit # NoSubmit =>
           /\ perFrame.submit.wait = perFrame.begun.acquire
           /\ perFrame.submit.signal = perFrame.begun.release
    /\ perFrame.presentWait # None =>
           perFrame.presentWait = perFrame.begun.release

-----------------------------------------------------------------------------
(* Properties of the functions without state (specification SpecFn) *)

Returned(name) == fn.name = name /\ fn.draft # "none"

\* C35: for every mode value v obtained by OR-ing a subset S of {VulkanCompute,
\* VulkanGraphics, VulkanPresent}, v.Has(m) is true exactly when m is in S; in
\* particular (VulkanCompute|VulkanGraphics).Has(VulkanPresent) is false.
C35_HasExactlyTheModesOred ==
    Returned("Has") => (fn.out.ok <=> fn.mode \in fn.ored)

\* C36: CoreRenderInstance.Init returns the missing-device-extensions error if and
\* only if at least one wanted device extension is absent from the extensions the
\* device offers; when every wanted extension is offered it goes on to create the
\* device.
C36_ErrorIffExtensionMissing ==
    Returned("Init") =>
        LET absent == \E i \in 1..Len(fn.wanted) :
                          \A j \in 1..Len(fn.actual) : fn.actual[j] # fn.wanted[i]
        IN  /\ fn.out.result = "missingExtensions" <=> absent
            /\ ~absent => fn.out.result = "deviceCreated"

\* the memory type indices deviceRequirements allows
AllowedTypes(deviceRequirements) ==
    {i \in 0..(MaxMemoryTypes - 1) : (deviceRequirements \div Shl(1, i)) % 2 = 1}

Lowest(S) == CHOOSE i \in S : \A j \in S : i <= j

\* C37: FindRequiredMemoryTypeFallback returns (i, true) with i the lowest allowed
\* memory type whose flags satisfy hostRequirements; when no allowed type satisfies
\* a non-zero hostRequirements it falls back to (j, true) with j the first allowed
\* type; it returns (0, false) only when deviceRequirements allows no memory type.
C37_LowestTypeOrFallback ==
    Returned("FindRequiredMemoryTypeFallback") =>
        LET allowed == AllowedTypes(fn.deviceRequirements)
            satisfying == {i \in allowed :
                              BitAnd(fn.props[i + 1], fn.hostRequirements) # 0}
        IN  IF satisfying # {}
            THEN fn.out.ok /\ fn.out.index = Lowest(satisfying)
            ELSE IF allowed # {}
            THEN fn.out.ok /\ fn.out.index = Lowest(allowed)
            ELSE ~fn.out.ok /\ fn.out.index = 0

-----------------------------------------------------------------------------
(* Properties of the platform (specification SpecPlatform) *)

(* C33: platform.Destroy completes without a runtime failure for a platform that
   NewPlatform created in a mode without presentation, where preparePresent and
   prepareSwapchain never ran: context.destroy destroys no semaphore and no
   swapchain that was not created. *)
C33_DestroyWithoutPresentation ==
    (platform.pc \in {"destroyed", "crashed"} /\ "semaphores" \notin platform.made) =>
        /\ platform.pc = "destroyed"
        /\ ~Has(platform.ops, "panic")
        /\ ~Has(platform.ops, "destroySemaphores")
        /\ ~Has(platform.ops, "destroySwapchain")

(* C34: after NewPlatform succeeded in present mode, PresentQueue() is a queue that
   was retrieved from the device, for a family that presents to the surface; when
   the family taken for graphics presents too, HasSeparatePresentQueue() is false
   and PresentQueue() is GraphicsQueue(), whatever the index of the family. *)
C34_PresentQueueOfPresentingFamily ==
    (platform.pc = "ready"
       /\ VulkanModeHas(platform.draft, platform.mode, VulkanPresent)) =>
        /\ PresentQueue(platform) # None
        /\ platform.families[PresentQueue(platform) + 1].present
        /\ platform.families[platform.graphicsQueueIndex + 1].present =>
               /\ ~HasSeparatePresentQueue(platform)
               /\ PresentQueue(platform) = GraphicsQueue(platform)

====
